---------------------------- MODULE Spec2Model ----------------------------
(***************************************************************************)
(* TOEIC mock-test generator and its two quiz front-ends.                  *)
(*                                                                         *)
(* src/toeic_generator.py : _domain_lex, _label_options, gen_part5/6/7,    *)
(*                          generate_dataset                               *)
(* src/app.py             : filter_reading_only, on_load, on_submit,       *)
(*                          on_restart (Dash)                              *)
(* src/streamlit_app.py   : the Streamlit script run (load, next, submit,  *)
(*                          restart, history)                              *)
(*                                                                         *)
(* Conventions.  A Python string that the code inspects or assembles is a  *)
(* sequence of tokens: f"{letter}. {text}" is <<letter>> \o text, a plain  *)
(* option word is a one-token text, a blank marker is a token of its own   *)
(* ("[_____1]" stands for the marker with fullwidth brackets), and a Part  *)
(* 7 bank passage starts with its label token ("FAQ:").  Japanese          *)
(* explanation strings are named by tags ("note.memo_type").  Python None  *)
(* is NONE.  random.Random is a 16-bit linear congruential generator: a    *)
(* deterministic function of the seed, advanced by one step per draw.      *)
(***************************************************************************)
EXTENDS Integers, Sequences, FiniteSets, TLC

VARIABLES
    args,       \* generator harness: the arguments of generate_dataset
    today,      \* generator harness: datetime.date.today()
    results,    \* generator harness: the Datasets returned so far
    lo_args,    \* labeler harness: (options_plain, correct_index, rng)
    lo_ret,     \* labeler harness: the value _label_options returned
    heap,       \* filter harness: object id -> dict or list
    f_arg,      \* filter harness: id of the dict passed to filter_reading_only
    f_ret,      \* filter harness: id of the dict it returned
    dash,       \* Dash: dataset-store, state-store and the radio's value
    st,         \* Streamlit: st.session_state and what the last run rendered
    lex_call,   \* lexicon harness: the tag passed to _domain_lex and its bundle
    p5_seen,    \* Part 5 harness: the archetypes gen_part5 used, per question
    p7_seen,    \* Part 7 harness: the passages gen_part7 gave, over the seeds
    imp,        \* history import harness: the file, the history, the result
    cli,        \* command-line quiz: the questions, the position, the score
    hints       \* hint harness: two calls of a synthesizer that differ in their hints

vars == <<args, today, results, lo_args, lo_ret, heap, f_arg, f_ret, dash, st, lex_call, p5_seen, imp, cli, p7_seen, hints>>

NONE == "<None>"

\* an optional argument of another type: <<>> is None, <<v>> is the value v
Some(v) == <<v>>
Nothing == <<>>

-----------------------------------------------------------------------------
(* Bounds of the input spaces.                                             *)

MaxSeed == 5
MaxPerPart == 2
MaxSeedP6 == 40
MaxSeedP7 == 3
MaxLabelSeed == 7
MaxOptions == 4
MaxBlocks == 3
MaxEntropy == 2

-----------------------------------------------------------------------------
(* random.Random                                                           *)

rng_next(s) == (s * 25173 + 13849) % 65536

\* random.Random(seed) with an integer seed
rng_seed(seed) == rng_next(rng_next((seed * 7919 + 10473) % 65536))

\* the states random.Random(None) may start in (seeded from the OS)
rng_entropy == {rng_seed(1000 + e) : e \in 0..MaxEntropy}

Random_unseeded(seed) == rng_entropy

\* random.Random(seed): the set of generator states the constructor may yield
Random(seed) == IF seed = Nothing THEN rng_entropy ELSE {rng_seed(seed[1])}

\* F(v) with v evaluated once: the value of a statement sequence
\* "x = v; ... F(x)" (a LET would re-evaluate v at every use of x)
Bind(v, F(_)) == CHOOSE y \in {F(x) : x \in {v}} : TRUE

\* a draw of an integer in 0..n-1, and the generator's next state
randbelow(rng, n) ==
    Bind(rng_next(rng), LAMBDA s : [val |-> (s \div 16) % n, rng |-> s])

\* rng.choice(seq)
choice(rng, seq) ==
    Bind(randbelow(rng, Len(seq)), LAMBDA r : [val |-> seq[r.val + 1], rng |-> r.rng])

\* rng.randrange(start, stop)
randrange(rng, start, stop) ==
    Bind(randbelow(rng, stop - start), LAMBDA r : [val |-> start + r.val, rng |-> r.rng])

\* rng.random() < 0.5
random_lt_half(rng) ==
    Bind(randbelow(rng, 2), LAMBDA r : [val |-> r.val = 0, rng |-> r.rng])

\* x[i], x[j] = x[j], x[i] (0-based i, j)
swap(x, i, j) == [x EXCEPT ![i + 1] = x[j + 1], ![j + 1] = x[i + 1]]

RECURSIVE shuffle_from(_, _, _)
shuffle_from(rng, x, i) ==
    IF i < 1 THEN [val |-> x, rng |-> rng]
    ELSE Bind(randbelow(rng, i + 1), LAMBDA r :
         Bind(swap(x, i, r.val), LAMBDA y : shuffle_from(r.rng, y, i - 1)))

shuffle_stateless(rng, x) == [val |-> shuffle_from(rng, x, Len(x) - 1).val, rng |-> rng]

\* rng.shuffle(x): Fisher-Yates from the last index down to 1
shuffle(rng, x) == shuffle_from(rng, x, Len(x) - 1)

-----------------------------------------------------------------------------
(* _label_options                                                          *)

Letters == <<"A", "B", "C", "D", "E", "F", "G", "H">>

\* chr(ord('A') + i)
chr_A(i) == Letters[i + 1]

\* ord(letter) - ord('A')
ord_A(letter) == (CHOOSE k \in 1..Len(Letters) : Letters[k] = letter) - 1

\* f"{letter}. {text}"
fmt_option(letter, text) == <<letter>> \o text

option_letter_by_idx(i, idx) == chr_A(idx)

\* letter = chr(ord('A') + i): the label follows the output position i
option_letter(i, idx) == chr_A(i)

answer_hit_by_pos(i, idx, correct_index) == i = correct_index

\* if idx == correct_index: answer_letter = letter
answer_hit(i, idx, correct_index) == idx = correct_index

Max(S) == CHOOSE m \in S : \A k \in S : k <= m

label_options(options_plain, correct_index, rng) ==
    Bind(shuffle(rng, [k \in 1..Len(options_plain) |-> k - 1]), LAMBDA sh :
    LET idxs == sh.val
        labeled == [i \in 1..Len(idxs) |->
                      fmt_option(option_letter(i - 1, idxs[i]), options_plain[idxs[i] + 1])]
        hits == {i \in 1..Len(idxs) : answer_hit(i - 1, idxs[i], correct_index)}
        answer_letter == IF hits = {} THEN "A"
                         ELSE option_letter(Max(hits) - 1, idxs[Max(hits)])
    IN [labeled |-> labeled, answer |-> answer_letter, rng |-> sh.rng])

-----------------------------------------------------------------------------
(* _domain_lex                                                             *)

\* the characters of the strings passed as domain tags (a string is atomic
\* to the model checker, so its characters are listed)
Spelling ==
    "" :> <<>> @@
    "it" :> <<"i", "t">> @@
    "manufacturing" :> <<"m", "a", "n", "u", "f", "a", "c", "t", "u", "r", "i", "n", "g">> @@
    "logistics" :> <<"l", "o", "g", "i", "s", "t", "i", "c", "s">> @@
    "medical" :> <<"m", "e", "d", "i", "c", "a", "l">> @@
    "finance" :> <<"f", "i", "n", "a", "n", "c", "e">> @@
    "hr" :> <<"h", "r">> @@
    "marketing" :> <<"m", "a", "r", "k", "e", "t", "i", "n", "g">> @@
    "education" :> <<"e", "d", "u", "c", "a", "t", "i", "o", "n">> @@
    "hospitality" :> <<"h", "o", "s", "p", "i", "t", "a", "l", "i", "t", "y">> @@
    "retail" :> <<"r", "e", "t", "a", "i", "l">> @@
    "realestate" :> <<"r", "e", "a", "l", "e", "s", "t", "a", "t", "e">> @@
    "energy" :> <<"e", "n", "e", "r", "g", "y">> @@
    "legal" :> <<"l", "e", "g", "a", "l">> @@
    "public" :> <<"p", "u", "b", "l", "i", "c">> @@
    "aviation" :> <<"a", "v", "i", "a", "t", "i", "o", "n">> @@
    "food" :> <<"f", "o", "o", "d">> @@
    "construction" :> <<"c", "o", "n", "s", "t", "r", "u", "c", "t", "i", "o", "n">> @@
    "ecommerce" :> <<"e", "c", "o", "m", "m", "e", "r", "c", "e">> @@
    "support" :> <<"s", "u", "p", "p", "o", "r", "t">> @@
    "It" :> <<"I", "t">> @@
    "Manufacturing" :> <<"M", "a", "n", "u", "f", "a", "c", "t", "u", "r", "i", "n", "g">> @@
    "Logistics" :> <<"L", "o", "g", "i", "s", "t", "i", "c", "s">> @@
    "Medical" :> <<"M", "e", "d", "i", "c", "a", "l">> @@
    "Finance" :> <<"F", "i", "n", "a", "n", "c", "e">> @@
    "Hr" :> <<"H", "r">> @@
    "Marketing" :> <<"M", "a", "r", "k", "e", "t", "i", "n", "g">> @@
    "Education" :> <<"E", "d", "u", "c", "a", "t", "i", "o", "n">> @@
    "Hospitality" :> <<"H", "o", "s", "p", "i", "t", "a", "l", "i", "t", "y">> @@
    "Retail" :> <<"R", "e", "t", "a", "i", "l">> @@
    "Realestate" :> <<"R", "e", "a", "l", "e", "s", "t", "a", "t", "e">> @@
    "Energy" :> <<"E", "n", "e", "r", "g", "y">> @@
    "Legal" :> <<"L", "e", "g", "a", "l">> @@
    "Public" :> <<"P", "u", "b", "l", "i", "c">> @@
    "Aviation" :> <<"A", "v", "i", "a", "t", "i", "o", "n">> @@
    "Food" :> <<"F", "o", "o", "d">> @@
    "Construction" :> <<"C", "o", "n", "s", "t", "r", "u", "c", "t", "i", "o", "n">> @@
    "Ecommerce" :> <<"E", "c", "o", "m", "m", "e", "r", "c", "e">> @@
    "Support" :> <<"S", "u", "p", "p", "o", "r", "t">> @@
    "IT" :> <<"I", "T">> @@
    "MANUFACTURING" :> <<"M", "A", "N", "U", "F", "A", "C", "T", "U", "R", "I", "N", "G">> @@
    "LOGISTICS" :> <<"L", "O", "G", "I", "S", "T", "I", "C", "S">> @@
    "MEDICAL" :> <<"M", "E", "D", "I", "C", "A", "L">> @@
    "FINANCE" :> <<"F", "I", "N", "A", "N", "C", "E">> @@
    "HR" :> <<"H", "R">> @@
    "MARKETING" :> <<"M", "A", "R", "K", "E", "T", "I", "N", "G">> @@
    "EDUCATION" :> <<"E", "D", "U", "C", "A", "T", "I", "O", "N">> @@
    "HOSPITALITY" :> <<"H", "O", "S", "P", "I", "T", "A", "L", "I", "T", "Y">> @@
    "RETAIL" :> <<"R", "E", "T", "A", "I", "L">> @@
    "REALESTATE" :> <<"R", "E", "A", "L", "E", "S", "T", "A", "T", "E">> @@
    "ENERGY" :> <<"E", "N", "E", "R", "G", "Y">> @@
    "LEGAL" :> <<"L", "E", "G", "A", "L">> @@
    "PUBLIC" :> <<"P", "U", "B", "L", "I", "C">> @@
    "AVIATION" :> <<"A", "V", "I", "A", "T", "I", "O", "N">> @@
    "FOOD" :> <<"F", "O", "O", "D">> @@
    "CONSTRUCTION" :> <<"C", "O", "N", "S", "T", "R", "U", "C", "T", "I", "O", "N">> @@
    "ECOMMERCE" :> <<"E", "C", "O", "M", "M", "E", "R", "C", "E">> @@
    "SUPPORT" :> <<"S", "U", "P", "P", "O", "R", "T">> @@
    "unknown" :> <<"u", "n", "k", "n", "o", "w", "n">> @@
    "Unknown" :> <<"U", "n", "k", "n", "o", "w", "n">> @@
    "sales" :> <<"s", "a", "l", "e", "s">> @@
    " it" :> <<" ", "i", "t">> @@
    "it " :> <<"i", "t", " ">> @@
    "i t" :> <<"i", " ", "t">> @@
    "IT/ops" :> <<"I", "T", "/", "o", "p", "s">> @@
    "its" :> <<"i", "t", "s">>

\* the upper-case letters and their lower-case forms
LowerCase ==
    "A" :> "a" @@ "B" :> "b" @@ "C" :> "c" @@ "D" :> "d" @@ "E" :> "e" @@ "F" :> "f" @@
    "G" :> "g" @@ "H" :> "h" @@ "I" :> "i" @@ "J" :> "j" @@ "K" :> "k" @@ "L" :> "l" @@
    "M" :> "m" @@ "N" :> "n" @@ "O" :> "o" @@ "P" :> "p" @@ "Q" :> "q" @@ "R" :> "r" @@
    "S" :> "s" @@ "T" :> "t" @@ "U" :> "u" @@ "V" :> "v" @@ "W" :> "w" @@ "X" :> "x" @@
    "Y" :> "y" @@ "Z" :> "z"

lower_char(c) == IF c \in DOMAIN LowerCase THEN LowerCase[c] ELSE c

\* "".join(chars)
RECURSIVE join(_)
join(chars) == IF chars = <<>> THEN "" ELSE Head(chars) \o join(Tail(chars))

\* str.lower(), character by character
lower(s) == join([k \in 1..Len(Spelling[s]) |-> lower_char(Spelling[s][k])])

lex_conf ==
    [nouns |-> <<"report", "proposal", "contract", "shipment", "agenda", "policy">>,
       depts |-> <<"finance", "HR", "marketing", "IT", "operations">>,
       companies |-> <<"our company", "the vendor", "the client", "the committee", "the department">>,
       ad_item |-> "membership"]

lex_table ==
    "it" :>
      [nouns |-> <<"report", "ticket", "deployment", "release notes", "specification">>,
       depts |-> <<"IT", "QA", "security", "platform", "infrastructure">>,
       companies |-> <<"our team", "the vendor", "the client", "the committee", "the department">>,
       ad_item |-> "cloud backup plan"] @@
    "manufacturing" :>
      [nouns |-> <<"report", "proposal", "assembly plan", "maintenance log", "inspection record">>,
       depts |-> <<"production", "quality", "engineering", "logistics", "procurement">>,
       companies |-> <<"our factory", "the supplier", "the plant", "the committee", "the department">>,
       ad_item |-> "maintenance toolkit"] @@
    "logistics" :>
      [nouns |-> <<"shipment", "manifest", "waybill", "delivery schedule", "inventory report">>,
       depts |-> <<"operations", "dispatch", "warehouse", "customs", "fleet">>,
       companies |-> <<"our company", "the carrier", "the client", "the warehouse", "the department">>,
       ad_item |-> "express delivery option"] @@
    "medical" :>
      [nouns |-> <<"report", "consent form", "survey", "schedule", "policy">>,
       depts |-> <<"administration", "nursing", "billing", "pharmacy", "radiology">>,
       companies |-> <<"our clinic", "the hospital", "the lab", "the committee", "the department">>,
       ad_item |-> "health screening package"] @@
    "finance" :>
      [nouns |-> <<"invoice", "balance sheet", "statement", "budget", "ledger">>,
       depts |-> <<"accounting", "audit", "treasury", "compliance", "finance">>,
       companies |-> <<"our firm", "the client", "the bank", "the auditor", "the department">>,
       ad_item |-> "small-business loan consultation"] @@
    "hr" :>
      [nouns |-> <<"policy", "timesheet", "benefits form", "onboarding packet", "schedule">>,
       depts |-> <<"HR", "recruiting", "training", "payroll", "compliance">>,
       companies |-> <<"our HR team", "the recruiter", "the applicant", "the manager", "the department">>,
       ad_item |-> "employee wellness program"] @@
    "marketing" :>
      [nouns |-> <<"campaign brief", "press kit", "ad copy", "media plan", "newsletter">>,
       depts |-> <<"marketing", "PR", "design", "sales", "digital">>,
       companies |-> <<"our agency", "the client", "the sponsor", "the committee", "the department">>,
       ad_item |-> "social media analytics suite"] @@
    "education" :>
      [nouns |-> <<"syllabus", "schedule", "registration form", "survey", "policy">>,
       depts |-> <<"admissions", "student affairs", "faculty", "library", "IT">>,
       companies |-> <<"our school", "the university", "the department", "the committee", "the registrar">>,
       ad_item |-> "online course bundle"] @@
    "hospitality" :>
      [nouns |-> <<"reservation", "menu", "event order", "invoice", "policy">>,
       depts |-> <<"front desk", "housekeeping", "banquet", "kitchen", "sales">>,
       companies |-> <<"our hotel", "the restaurant", "the venue", "the concierge", "the department">>,
       ad_item |-> "seasonal dining plan"] @@
    "retail" :>
      [nouns |-> <<"inventory report", "price list", "return policy", "promotion", "invoice">>,
       depts |-> <<"store operations", "merchandising", "customer service", "logistics", "marketing">>,
       companies |-> <<"our store", "the supplier", "the warehouse", "the brand", "the department">>,
       ad_item |-> "loyalty membership"] @@
    "realestate" :>
      [nouns |-> <<"lease", "inspection report", "listing", "schedule", "policy">>,
       depts |-> <<"property", "leasing", "sales", "maintenance", "compliance">>,
       companies |-> <<"our agency", "the landlord", "the tenant", "the committee", "the department">>,
       ad_item |-> "open house tour"] @@
    "energy" :>
      [nouns |-> <<"maintenance log", "outage notice", "safety record", "inspection report", "proposal">>,
       depts |-> <<"operations", "maintenance", "safety", "compliance", "engineering">>,
       companies |-> <<"our utility", "the plant", "the contractor", "the committee", "the department">>,
       ad_item |-> "home energy audit"] @@
    "legal" :>
      [nouns |-> <<"contract", "brief", "case file", "policy", "notice">>,
       depts |-> <<"legal", "compliance", "litigation", "IP", "risk">>,
       companies |-> <<"our firm", "the client", "the court", "the committee", "the department">>,
       ad_item |-> "contract review service"] @@
    "public" :>
      [nouns |-> <<"notice", "agenda", "public comment", "policy", "survey">>,
       depts |-> <<"city council", "planning", "public works", "transport", "parks">>,
       companies |-> <<"the city", "the county", "the agency", "the board", "the department">>,
       ad_item |-> "community workshop"] @@
    "aviation" :>
      [nouns |-> <<"itinerary", "boarding pass", "notice", "schedule", "policy">>,
       depts |-> <<"operations", "ground staff", "security", "maintenance", "customer service">>,
       companies |-> <<"our airline", "the airport", "the carrier", "the authority", "the department">>,
       ad_item |-> "priority boarding option"] @@
    "food" :>
      [nouns |-> <<"menu", "invoice", "reservation", "order", "policy">>,
       depts |-> <<"kitchen", "service", "banquet", "procurement", "marketing">>,
       companies |-> <<"our cafe", "the restaurant", "the supplier", "the committee", "the department">>,
       ad_item |-> "meal subscription plan"] @@
    "construction" :>
      [nouns |-> <<"inspection report", "work order", "proposal", "schedule", "permit">>,
       depts |-> <<"site", "engineering", "procurement", "safety", "logistics">>,
       companies |-> <<"our contractor", "the client", "the vendor", "the council", "the department">>,
       ad_item |-> "equipment rental package"] @@
    "ecommerce" :>
      [nouns |-> <<"order", "return label", "invoice", "promotion", "inventory">>,
       depts |-> <<"fulfillment", "customer support", "marketing", "IT", "analytics">>,
       companies |-> <<"our shop", "the marketplace", "the seller", "the brand", "the department">>,
       ad_item |-> "free shipping upgrade"] @@
    "support" :>
      [nouns |-> <<"ticket", "knowledge base", "policy", "survey", "SLA">>,
       depts |-> <<"support", "success", "training", "QA", "IT">>,
       companies |-> <<"our support team", "the client", "the vendor", "the department", "the committee">>,
       ad_item |-> "premium support plan"]

domain_lex_table_only(domain) ==
    LET d == lower(IF domain = NONE THEN "" ELSE domain)
    IN IF d \in DOMAIN lex_table THEN lex_table[d] ELSE [x \in {} |-> x]

\* conf.update(table.get(d, {})): every table entry sets all four fields
domain_lex(domain) ==
    LET d == lower(IF domain = NONE THEN "" ELSE domain)
    IN IF d \in DOMAIN lex_table THEN lex_table[d] ELSE lex_conf

p5_preposition(rng, lex) ==
    LET c0 == choice(rng, <<"the online portal", "email", "the company website", "the shared drive">>)
    IN [stem |-> <<"Employees are encouraged to submit feedback ______ ", c0.val, ".">>,
      opts |-> <<<<"through">>, <<"among">>, <<"across">>, <<"under">>>>,
      correct_idx |-> 0,
      note |-> <<"note.p5_preposition">>,
      rng |-> c0.rng]

p5_verb_form(rng, lex) ==
    LET c0 == choice(rng, lex.nouns)
    IN [stem |-> <<"The manager approved the ", c0.val, " after carefully ______ the costs.">>,
      opts |-> <<<<"evaluating">>, <<"evaluated">>, <<"evaluation">>, <<"evaluates">>>>,
      correct_idx |-> 0,
      note |-> <<"note.p5_verb_form">>,
      rng |-> c0.rng]

p5_conjunction(rng, lex) ==
    [stem |-> <<"Our sales have increased steadily, ______ our market share remains small.">>,
      opts |-> <<<<"although">>, <<"because">>, <<"unless">>, <<"so">>>>,
      correct_idx |-> 0,
      note |-> <<"note.p5_conjunction">>,
      rng |-> rng]

p5_collocation(rng, lex) ==
    LET c0 == choice(rng, lex.depts)
    IN [stem |-> <<"Please ______ the attached form to the ", c0.val, " department by Friday.">>,
      opts |-> <<<<"submit">>, <<"repair">>, <<"cancel">>, <<"extend">>>>,
      correct_idx |-> 0,
      note |-> <<"note.p5_collocation">>,
      rng |-> c0.rng]

p5_comparative(rng, lex) ==
    [stem |-> <<"This model is ______ than the previous version, making it ideal for travel.">>,
      opts |-> <<<<"lighter">>, <<"lightest">>, <<"more light">>, <<"light">>>>,
      correct_idx |-> 0,
      note |-> <<"note.p5_comparative">>,
      rng |-> rng]

p5_quantifiers(rng, lex) ==
    [stem |-> <<"There are ______ opportunities for advancement in this department.">>,
      opts |-> <<<<"a few">>, <<"few">>, <<"little">>, <<"a little">>>>,
      correct_idx |-> 0,
      note |-> <<"note.p5_quantifiers">>,
      rng |-> rng]

p5_time_prep(rng, lex) ==
    [stem |-> <<"The system will be down ______ two hours for maintenance.">>,
      opts |-> <<<<"for">>, <<"since">>, <<"during">>, <<"at">>>>,
      correct_idx |-> 0,
      note |-> <<"note.p5_time_prep">>,
      rng |-> rng]

p5_phrasal_verb(rng, lex) ==
    [stem |-> <<"Due to scheduling conflicts, we'll ______ the meeting to next week.">>,
      opts |-> <<<<"put off">>, <<"take off">>, <<"set off">>, <<"turn off">>>>,
      correct_idx |-> 0,
      note |-> <<"note.p5_phrasal_verb">>,
      rng |-> rng]

p5_as_as(rng, lex) ==
    [stem |-> <<"The new printer is as ______ as the old one.">>,
      opts |-> <<<<"fast">>, <<"fastly">>, <<"faster">>, <<"more fast">>>>,
      correct_idx |-> 0,
      note |-> <<"note.p5_as_as">>,
      rng |-> rng]

p5_pronoun_agreement(rng, lex) ==
    [stem |-> <<"Each of the employees ______ responsible for safety training.">>,
      opts |-> <<<<"is">>, <<"are">>, <<"be">>, <<"were">>>>,
      correct_idx |-> 0,
      note |-> <<"note.p5_pronoun_agreement">>,
      rng |-> rng]

p5_subjunctive(rng, lex) ==
    [stem |-> <<"It is essential that every member ______ the orientation on time.">>,
      opts |-> <<<<"complete">>, <<"completes">>, <<"completed">>, <<"will complete">>>>,
      correct_idx |-> 0,
      note |-> <<"note.p5_subjunctive">>,
      rng |-> rng]

p5_passive(rng, lex) ==
    LET c0 == choice(rng, lex.nouns)
    IN [stem |-> <<"The ", c0.val, " ______ by the end of the day.">>,
      opts |-> <<<<"must be submitted">>, <<"must submit">>, <<"must be submitting">>, <<"must have submit">>>>,
      correct_idx |-> 0,
      note |-> <<"note.p5_passive">>,
      rng |-> c0.rng]

p5_word_family(rng, lex) ==
    [stem |-> <<"We need an ______ solution to reduce overall costs.">>,
      opts |-> <<<<"economical">>, <<"economic">>, <<"economics">>, <<"economically">>>>,
      correct_idx |-> 0,
      note |-> <<"note.p5_word_family">>,
      rng |-> rng]

p5_relative_pronoun(rng, lex) ==
    [stem |-> <<"The report, ______ was finalized yesterday, will be shared with all staff.">>,
      opts |-> <<<<"which">>, <<"that">>, <<"who">>, <<"whom">>>>,
      correct_idx |-> 0,
      note |-> <<"note.p5_relative_pronoun">>,
      rng |-> rng]

p5_inversion(rng, lex) ==
    [stem |-> <<"Only after the audit ______ the errors become apparent.">>,
      opts |-> <<<<"did">>, <<"do">>, <<"does">>, <<"had">>>>,
      correct_idx |-> 0,
      note |-> <<"note.p5_inversion">>,
      rng |-> rng]

p5_parallelism(rng, lex) ==
    [stem |-> <<"The position requires managing budgets, coordinating schedules, and ______.">>,
      opts |-> <<<<"communicating with stakeholders">>, <<"to communicate with stakeholders">>, <<"communication with stakeholders">>, <<"communicate with stakeholders">>>>,
      correct_idx |-> 0,
      note |-> <<"note.p5_parallelism">>,
      rng |-> rng]

p5_articles(rng, lex) ==
    [stem |-> <<"He is ______ experienced engineer.">>,
      opts |-> <<<<"an">>, <<"a">>, <<"the">>, <<"(no article)">>>>,
      correct_idx |-> 0,
      note |-> <<"note.p5_articles">>,
      rng |-> rng]

p5_count_uncount(rng, lex) ==
    [stem |-> <<"We need more ______ to complete the project.">>,
      opts |-> <<<<"equipment">>, <<"equipments">>, <<"equipmentes">>, <<"equipments are">>>>,
      correct_idx |-> 0,
      note |-> <<"note.p5_count_uncount">>,
      rng |-> rng]

p5_fewer_less(rng, lex) ==
    [stem |-> <<"We have ______ resources than last quarter.">>,
      opts |-> <<<<"fewer">>, <<"less">>, <<"little">>, <<"few">>>>,
      correct_idx |-> 0,
      note |-> <<"note.p5_fewer_less">>,
      rng |-> rng]

p5_conditional_third(rng, lex) ==
    [stem |-> <<"If he ______ the report earlier, we could have fixed the issue.">>,
      opts |-> <<<<"had sent">>, <<"sent">>, <<"has sent">>, <<"would send">>>>,
      correct_idx |-> 0,
      note |-> <<"note.p5_conditional_third">>,
      rng |-> rng]

p5_reported_speech(rng, lex) ==
    [stem |-> <<"She said she ______ the files by noon.">>,
      opts |-> <<<<"would send">>, <<"will send">>, <<"sends">>, <<"is sending">>>>,
      correct_idx |-> 0,
      note |-> <<"note.p5_reported_speech">>,
      rng |-> rng]

p5_adj_order(rng, lex) ==
    [stem |-> <<"She bought a ______ laptop for travel.">>,
      opts |-> <<<<"lightweight new">>, <<"new lightweight">>, <<"new and lightweight">>, <<"lightweight of new">>>>,
      correct_idx |-> 1,
      note |-> <<"note.p5_adj_order">>,
      rng |-> rng]

p5_infinitive_after_adj(rng, lex) ==
    [stem |-> <<"The task is easy ______.">>,
      opts |-> <<<<"to complete">>, <<"completing">>, <<"to completing">>, <<"completed">>>>,
      correct_idx |-> 0,
      note |-> <<"note.p5_infinitive_after_adj">>,
      rng |-> rng]

p5_collocation_take_note(rng, lex) ==
    [stem |-> <<"Please take ______ of the new safety guidelines.">>,
      opts |-> <<<<"note">>, <<"notes">>, <<"a note">>, <<"noting">>>>,
      correct_idx |-> 0,
      note |-> <<"note.p5_collocation_take_note">>,
      rng |-> rng]

memo_type(rng, lex) ==
    [text |-> <<"To all staff: Please ", "[_____]", " your timesheets by Friday so payroll can be processed on time. Thank you.">>,
      opts |-> <<<<"submit">>, <<"repair">>, <<"cancel">>, <<"extend">>>>,
      correct_idx |-> 0,
      note |-> <<"note.memo_type">>,
      rng |-> rng]

notice_type(rng, lex) ==
    [text |-> <<"Reminder: The parking lot will be closed for cleaning this weekend. Please ", "[_____]", " alternative arrangements.">>,
      opts |-> <<<<"make">>, <<"made">>, <<"making">>, <<"to make">>>>,
      correct_idx |-> 0,
      note |-> <<"note.notice_type">>,
      rng |-> rng]

email_type(rng, lex) ==
    [text |-> <<"Dear Customer, Your order has been shipped and should arrive ", "[_____]", " three business days.">>,
      opts |-> <<<<"within">>, <<"at">>, <<"on">>, <<"since">>>>,
      correct_idx |-> 0,
      note |-> <<"note.email_type">>,
      rng |-> rng]

apology_type(rng, lex) ==
    [text |-> <<"We apologize for the delay in responding to your inquiry and appreciate your ", "[_____]", ".">>,
      opts |-> <<<<"patience">>, <<"patient">>, <<"patients">>, <<"patiently">>>>,
      correct_idx |-> 0,
      note |-> <<"note.apology_type">>,
      rng |-> rng]

plan_type(rng, lex) ==
    [text |-> <<"Our company is ", "[_____]", " a new line of eco-friendly packaging next quarter.">>,
      opts |-> <<<<"launching">>, <<"launched">>, <<"to launch">>, <<"launch">>>>,
      correct_idx |-> 0,
      note |-> <<"note.plan_type">>,
      rng |-> rng]

newsletter_type(rng, lex) ==
    [text |-> <<"Newsletter: The team will host a workshop next month. Please ", "[_____]", " if you plan to attend.">>,
      opts |-> <<<<"register">>, <<"registered">>, <<"registration">>, <<"to register">>>>,
      correct_idx |-> 0,
      note |-> <<"note.newsletter_type">>,
      rng |-> rng]

ad_type(rng, lex) ==
    [text |-> <<"Advertisement: Sign up now and get 20% off ", lex.ad_item, ". Offer ", "[_____]", " March 31.">>,
      opts |-> <<<<"until">>, <<"since">>, <<"at">>, <<"on">>>>,
      correct_idx |-> 0,
      note |-> <<"note.ad_type">>,
      rng |-> rng]

faq_type(rng, lex) ==
    [text |-> <<"FAQ: Q) How can I reset my password? A) Please ", "[_____]", " the instructions on the settings page.">>,
      opts |-> <<<<"follow">>, <<"follows">>, <<"to follow">>, <<"following">>>>,
      correct_idx |-> 0,
      note |-> <<"note.faq_type">>,
      rng |-> rng]

outage_notice(rng, lex) ==
    [text |-> <<"Notice: The service will be unavailable from 2 a.m. to 4 a.m. Please ", "[_____]", " accordingly.">>,
      opts |-> <<<<"plan">>, <<"plans">>, <<"planning">>, <<"to plan">>>>,
      correct_idx |-> 0,
      note |-> <<"note.outage_notice">>,
      rng |-> rng]

invitation_type(rng, lex) ==
    [text |-> <<"Invitation: You are invited to our product launch event. Please ", "[_____]", " by May 5.">>,
      opts |-> <<<<"RSVP">>, <<"RSVPs">>, <<"to RSVP">>, <<"RSVPed">>>>,
      correct_idx |-> 0,
      note |-> <<"note.invitation_type">>,
      rng |-> rng]

confirmation_email(rng, lex) ==
    [text |-> <<"Email: Thank you for your request. We have ", "[_____]", " your form and will contact you soon.">>,
      opts |-> <<<<"received">>, <<"receive">>, <<"receiving">>, <<"to receive">>>>,
      correct_idx |-> 0,
      note |-> <<"note.confirmation_email">>,
      rng |-> rng]

press_release(rng, lex) ==
    [text |-> <<"Press Release: Trendmore Inc. will launch a regional pilot next month. Please ", "[_____]", " our website for details.">>,
      opts |-> <<<<"see">>, <<"seeing">>, <<"to see">>, <<"saw">>>>,
      correct_idx |-> 0,
      note |-> <<"note.press_release">>,
      rng |-> rng]

survey_announce(rng, lex) ==
    [text |-> <<"Survey: All employees are invited to ", "[_____]", " the questionnaire by Friday.">>,
      opts |-> <<<<"complete">>, <<"completed">>, <<"completing">>, <<"to complete">>>>,
      correct_idx |-> 0,
      note |-> <<"note.survey_announce">>,
      rng |-> rng]

shipping_delay(rng, lex) ==
    [text |-> <<"Shipping Update: Your order is ", "[_____]", " due to customs inspection.">>,
      opts |-> <<<<"delayed">>, <<"delay">>, <<"delaying">>, <<"to delay">>>>,
      correct_idx |-> 0,
      note |-> <<"note.shipping_delay">>,
      rng |-> rng]

followup_email(rng, lex) ==
    [text |-> <<"Email: Following up on our meeting, please ", "[_____]", " the attached proposal.">>,
      opts |-> <<<<"review">>, <<"reviews">>, <<"reviewing">>, <<"to review">>>>,
      correct_idx |-> 0,
      note |-> <<"note.followup_email">>,
      rng |-> rng]

minutes_excerpt(rng, lex) ==
    [text |-> <<"Minutes: Mr. Cho ", "[_____]", " the budget revisions; the team agreed to submit feedback by Tuesday.">>,
      opts |-> <<<<"presented">>, <<"presents">>, <<"presenting">>, <<"to present">>>>,
      correct_idx |-> 0,
      note |-> <<"note.minutes_excerpt">>,
      rng |-> rng]

policy_update2(rng, lex) ==
    [text |-> <<"Policy Update: All visitors must ", "[_____]", " at the front desk upon arrival.">>,
      opts |-> <<<<"sign in">>, <<"sign on">>, <<"sign at">>, <<"sign up">>>>,
      correct_idx |-> 0,
      note |-> <<"note.policy_update2">>,
      rng |-> rng]

product_recall(rng, lex) ==
    [text |-> <<"Recall Notice: If your unit shows signs of overheating, ", "[_____]", " using it immediately.">>,
      opts |-> <<<<"stop">>, <<"stops">>, <<"to stop">>, <<"stopped">>>>,
      correct_idx |-> 0,
      note |-> <<"note.product_recall">>,
      rng |-> rng]

itinerary_snippet(rng, lex) ==
    [text |-> <<"Itinerary: Flight JK210 departs at 09:15 and ", "[_____]", " at 12:45.">>,
      opts |-> <<<<"arrives">>, <<"arrive">>, <<"arrived">>, <<"is arriving">>>>,
      correct_idx |-> 0,
      note |-> <<"note.itinerary_snippet">>,
      rng |-> rng]

manual_step(rng, lex) ==
    [text |-> <<"Manual: To reset the device, ", "[_____]", " the power button for ten seconds.">>,
      opts |-> <<<<"hold">>, <<"holds">>, <<"to hold">>, <<"holding">>>>,
      correct_idx |-> 0,
      note |-> <<"note.manual_step">>,
      rng |-> rng]

-----------------------------------------------------------------------------
(* gen_part5                                                               *)

p5_call(name, rng, lex) ==
    CASE name = "p5_preposition" -> p5_preposition(rng, lex)
      [] name = "p5_verb_form" -> p5_verb_form(rng, lex)
      [] name = "p5_conjunction" -> p5_conjunction(rng, lex)
      [] name = "p5_collocation" -> p5_collocation(rng, lex)
      [] name = "p5_comparative" -> p5_comparative(rng, lex)
      [] name = "p5_quantifiers" -> p5_quantifiers(rng, lex)
      [] name = "p5_time_prep" -> p5_time_prep(rng, lex)
      [] name = "p5_phrasal_verb" -> p5_phrasal_verb(rng, lex)
      [] name = "p5_as_as" -> p5_as_as(rng, lex)
      [] name = "p5_pronoun_agreement" -> p5_pronoun_agreement(rng, lex)
      [] name = "p5_subjunctive" -> p5_subjunctive(rng, lex)
      [] name = "p5_passive" -> p5_passive(rng, lex)
      [] name = "p5_word_family" -> p5_word_family(rng, lex)
      [] name = "p5_relative_pronoun" -> p5_relative_pronoun(rng, lex)
      [] name = "p5_inversion" -> p5_inversion(rng, lex)
      [] name = "p5_parallelism" -> p5_parallelism(rng, lex)
      [] name = "p5_articles" -> p5_articles(rng, lex)
      [] name = "p5_count_uncount" -> p5_count_uncount(rng, lex)
      [] name = "p5_fewer_less" -> p5_fewer_less(rng, lex)
      [] name = "p5_conditional_third" -> p5_conditional_third(rng, lex)
      [] name = "p5_reported_speech" -> p5_reported_speech(rng, lex)
      [] name = "p5_adj_order" -> p5_adj_order(rng, lex)
      [] name = "p5_infinitive_after_adj" -> p5_infinitive_after_adj(rng, lex)
      [] name = "p5_collocation_take_note" -> p5_collocation_take_note(rng, lex)

p5_pattern_funcs ==
    <<"p5_preposition", "p5_verb_form", "p5_conjunction", "p5_collocation",
      "p5_comparative", "p5_quantifiers", "p5_time_prep", "p5_phrasal_verb",
      "p5_as_as", "p5_pronoun_agreement", "p5_subjunctive", "p5_passive",
      "p5_word_family", "p5_relative_pronoun", "p5_inversion", "p5_parallelism",
      "p5_articles", "p5_count_uncount", "p5_fewer_less", "p5_conditional_third",
      "p5_reported_speech", "p5_adj_order", "p5_infinitive_after_adj",
      "p5_collocation_take_note">>

p5_hard_funcs ==
    <<"p5_verb_form", "p5_conjunction", "p5_subjunctive", "p5_passive",
      "p5_word_family", "p5_pronoun_agreement", "p5_comparative", "p5_preposition">>

p5_pool_all(difficulty) == p5_pattern_funcs

\* if difficulty == "hard": pattern_funcs = [...]
p5_pool(difficulty) ==
    IF difficulty = "hard" THEN p5_hard_funcs ELSE p5_pattern_funcs

\* one iteration of gen_part5's loop, i the 0-based loop index
p5_question(i, rng, difficulty, lex) ==
    Bind(choice(rng, p5_pool(difficulty)), LAMBDA picked :
    Bind(p5_call(picked.val, picked.rng, lex), LAMBDA r :
    Bind(label_options(r.opts, r.correct_idx, r.rng), LAMBDA lab :
        [q |-> [id |-> <<"G-P5-Q", i + 1>>,
                stem |-> r.stem,
                options |-> lab.labeled,
                answer |-> lab.answer,
                explanationJa |-> r.note],
         rng |-> lab.rng])))

RECURSIVE p5_loop(_, _, _, _, _, _)
p5_loop(i, count, rng, difficulty, lex, questions) ==
    IF i >= count THEN [questions |-> questions, rng |-> rng]
    ELSE Bind(p5_question(i, rng, difficulty, lex), LAMBDA s :
         Bind(Append(questions, s.q), LAMBDA qs :
              p5_loop(i + 1, count, s.rng, difficulty, lex, qs)))

gen_part5_from1(count, rng, difficulty, genre, domain) ==
    Bind(domain_lex(domain), LAMBDA lex :
    Bind(p5_loop(1, count, rng, difficulty, lex, <<>>), LAMBDA l :
        [block |-> [part |-> 5,
                    name |-> "Incomplete Sentences",
                    instructions |-> "Choose the word or phrase that best completes the sentence.",
                    questions |-> l.questions],
         rng |-> l.rng]))

gen_part5_hints_swapped(count, rng, difficulty, genre, domain) ==
    Bind(domain_lex(domain), LAMBDA lex :
    Bind(p5_loop(0, count, rng, genre, lex, <<>>), LAMBDA l :
        [block |-> [part |-> 5,
                    name |-> "Incomplete Sentences",
                    instructions |-> "Choose the word or phrase that best completes the sentence.",
                    questions |-> l.questions],
         rng |-> l.rng]))

\* for i in range(count): ...; return the block
gen_part5(count, rng, difficulty, genre, domain) ==
    Bind(domain_lex(domain), LAMBDA lex :
    Bind(p5_loop(0, count, rng, difficulty, lex, <<>>), LAMBDA l :
        [block |-> [part |-> 5,
                    name |-> "Incomplete Sentences",
                    instructions |-> "Choose the word or phrase that best completes the sentence.",
                    questions |-> l.questions],
         rng |-> l.rng]))

-----------------------------------------------------------------------------
(* gen_part6                                                               *)

blank2_opts == <<<<"submit">>, <<"review">>, <<"cancel">>, <<"extend">>>>
blank3_opts == <<<<"coordinate">>, <<"communicate">>, <<"collaborate">>, <<"cooperate">>>>

paragraph_multi(rng, lex) ==
    Bind(choice(rng, <<2, 3>>), LAMBDA b :
    LET blanks == b.val
        nouns == lex.nouns
        n1 == IF Len(nouns) > 0 THEN nouns[1] ELSE "forms"
        n2 == IF Len(nouns) > 1 THEN nouns[2] ELSE "reports"
        base == <<"To all staff, \nWe are updating procedures this month to improve efficiency. ",
                  "Please ", "[_____1]", " the ", n1, " and ", "[_____2]", " the ", n2,
                  " by Friday. ">>
                \o (IF blanks = 3
                    THEN <<"We also ask you to ", "[_____3]", " with your team to avoid delays.">>
                    ELSE <<>>)
        blank_opts_plain ==
            <<<<<<"submit">>, <<"repair">>, <<"cancel">>, <<"extend">>>>, blank2_opts>>
            \o (IF blanks = 3 THEN <<blank3_opts>> ELSE <<>>)
    IN  \* labeled_sets / answer_letters, one _label_options call per blank
        Bind(label_options(blank_opts_plain[1], 0, b.rng), LAMBDA l1 :
        Bind(label_options(blank_opts_plain[2], 0, l1.rng), LAMBDA l2 :
        Bind(IF blanks = 3 THEN label_options(blank_opts_plain[3], 0, l2.rng).rng
             ELSE l2.rng, LAMBDA rng3 :
        Bind(randrange(rng3, 1000000, 9999999), LAMBDA group_id :
        LET opts_for_first == l1.labeled
            correct_letter_first == l1.answer
        IN [text |-> base,
            opts |-> opts_for_first,
            correct_idx |-> ord_A(correct_letter_first),
            note |-> <<"note.paragraph_multi">>,
            rng |-> group_id.rng])))))

p6_call(name, rng, lex) ==
    CASE name = "memo_type" -> memo_type(rng, lex)
      [] name = "notice_type" -> notice_type(rng, lex)
      [] name = "email_type" -> email_type(rng, lex)
      [] name = "apology_type" -> apology_type(rng, lex)
      [] name = "plan_type" -> plan_type(rng, lex)
      [] name = "newsletter_type" -> newsletter_type(rng, lex)
      [] name = "ad_type" -> ad_type(rng, lex)
      [] name = "faq_type" -> faq_type(rng, lex)
      [] name = "paragraph_multi" -> paragraph_multi(rng, lex)
      [] name = "outage_notice" -> outage_notice(rng, lex)
      [] name = "invitation_type" -> invitation_type(rng, lex)
      [] name = "confirmation_email" -> confirmation_email(rng, lex)
      [] name = "press_release" -> press_release(rng, lex)
      [] name = "survey_announce" -> survey_announce(rng, lex)
      [] name = "shipping_delay" -> shipping_delay(rng, lex)
      [] name = "followup_email" -> followup_email(rng, lex)
      [] name = "minutes_excerpt" -> minutes_excerpt(rng, lex)
      [] name = "policy_update2" -> policy_update2(rng, lex)
      [] name = "product_recall" -> product_recall(rng, lex)
      [] name = "itinerary_snippet" -> itinerary_snippet(rng, lex)
      [] name = "manual_step" -> manual_step(rng, lex)

p6_patterns ==
    <<"memo_type", "notice_type", "email_type", "apology_type", "plan_type",
      "newsletter_type", "ad_type", "faq_type", "paragraph_multi",
      "outage_notice", "invitation_type", "confirmation_email",
      "press_release", "survey_announce", "shipping_delay", "followup_email",
      "minutes_excerpt", "policy_update2", "product_recall", "itinerary_snippet",
      "manual_step">>

\* "<marker>" in text
contains(text, token) == \E k \in 1..Len(text) : text[k] = token

p6_blanks_always3(text) == 3

\* blanks = 3 if "[_____3]" in text else 2
p6_blanks(text) == IF contains(text, "[_____3]") THEN 3 ELSE 2

p6_multi_context_own_notes(text, options, ans, note, opts2, opts3, group_id) ==
    LET blanks == p6_blanks(text)
    IN [text |-> text,
        multiBlanks |-> TRUE,
        blankCount |-> blanks,
        blankIndex |-> 0,
        blankOptionsLabeled |-> <<options, opts2.labeled>>
                                \o (IF blanks = 3 THEN <<opts3.labeled>> ELSE <<>>),
        blankAnswerLetters |-> <<ans, opts2.answer>>
                               \o (IF blanks = 3 THEN <<opts3.answer>> ELSE <<>>),
        blankNotes |-> <<<<"note.blank1">>, <<"note.blank2">>>>
                       \o (IF blanks = 3 THEN <<<<"note.blank3">>>> ELSE <<>>),
        groupId |-> <<"P6-", group_id>>]

\* context.update({...}) for a paragraph_multi question
p6_multi_context(text, options, ans, note, opts2, opts3, group_id) ==
    LET blanks == p6_blanks(text)
    IN [text |-> text,
        multiBlanks |-> TRUE,
        blankCount |-> blanks,
        blankIndex |-> 0,
        blankOptionsLabeled |-> <<options, opts2.labeled>>
                                \o (IF blanks = 3 THEN <<opts3.labeled>> ELSE <<>>),
        blankAnswerLetters |-> <<ans, opts2.answer>>
                               \o (IF blanks = 3 THEN <<opts3.answer>> ELSE <<>>),
        blankNotes |-> <<note, <<"note.blank2">>>> \o (IF blanks = 3 THEN <<<<"note.blank3">>>> ELSE <<>>),
        groupId |-> <<"P6-", group_id>>]

\* one iteration of gen_part6's loop, i the 0-based loop index
p6_question(i, rng, lex) ==
    Bind(choice(rng, p6_patterns), LAMBDA picked :
    Bind(p6_call(picked.val, picked.rng, lex), LAMBDA r :
    Bind(label_options(r.opts, r.correct_idx, r.rng), LAMBDA lab :
    IF picked.val = "paragraph_multi"
    THEN Bind(label_options(blank2_opts, 0, lab.rng), LAMBDA opts2 :
         Bind(IF p6_blanks(r.text) = 3 THEN label_options(blank3_opts, 0, opts2.rng)
              ELSE [labeled |-> <<>>, answer |-> "A", rng |-> opts2.rng], LAMBDA opts3 :
         Bind(randrange(opts3.rng, 1000000, 9999999), LAMBDA gid :
             [q |-> [id |-> <<"G-P6-Q", i + 1>>,
                     context |-> p6_multi_context(r.text, lab.labeled, lab.answer, r.note,
                                                  opts2, opts3, gid.val),
                     options |-> lab.labeled,
                     answer |-> lab.answer,
                     explanationJa |-> r.note],
              rng |-> gid.rng])))
    ELSE [q |-> [id |-> <<"G-P6-Q", i + 1>>,
                 context |-> [text |-> r.text],
                 options |-> lab.labeled,
                 answer |-> lab.answer,
                 explanationJa |-> r.note],
          rng |-> lab.rng])))

RECURSIVE p6_loop(_, _, _, _, _)
p6_loop(i, count, rng, lex, questions) ==
    IF i >= count THEN [questions |-> questions, rng |-> rng]
    ELSE Bind(p6_question(i, rng, lex), LAMBDA s :
         Bind(Append(questions, s.q), LAMBDA qs : p6_loop(i + 1, count, s.rng, lex, qs)))

gen_part6(count, rng, difficulty, genre, domain) ==
    Bind(domain_lex(domain), LAMBDA lex :
    Bind(p6_loop(0, count, rng, lex, <<>>), LAMBDA l :
        [block |-> [part |-> 6,
                    name |-> "Text Completion",
                    instructions |-> "Read the text and choose the best option to complete the blank.",
                    questions |-> l.questions],
         rng |-> l.rng]))

-----------------------------------------------------------------------------
(* gen_part7                                                               *)

p7_subjects ==
    <<"Our company", "The community center", "A local nonprofit", "The city council",
      "The marketing team", "A travel agency", "This year's organizing committee">>
p7_actions ==
    <<"is planning", "has announced", "will introduce", "is preparing",
      "decided to launch", "started coordinating", "will expand">>
p7_objects ==
    <<"a new outreach program", "an annual charity event", "a series of workshops",
      "an employee wellness initiative", "a weekend festival", "a pilot project">>
p7_details ==
    <<"to support local businesses", "to improve public awareness",
      "to gather feedback from residents", "to foster collaboration across departments",
      "to help first-time participants", "to share practical skills">>

RECURSIVE build_paragraph_loop(_, _, _)
build_paragraph_loop(rng, n, sentences) ==
    IF n = 0 THEN [val |-> sentences, rng |-> rng]
    ELSE Bind(choice(rng, p7_subjects), LAMBDA s :
         Bind(choice(s.rng, p7_actions), LAMBDA a :
         Bind(choice(a.rng, p7_objects), LAMBDA o :
         Bind(choice(o.rng, p7_details), LAMBDA d :
         Bind(Append(sentences, <<s.val, " ", a.val, " ", o.val, " ", d.val, ".">>),
              LAMBDA ss : build_paragraph_loop(d.rng, n - 1, ss))))))

\* a paragraph is the sequence of its sentences (joined by " " in the code)
build_paragraph(rng, target_sentences) == build_paragraph_loop(rng, target_sentences, <<>>)

make_passage_increasing(rng, length) ==
    IF length = "long"
    THEN Bind(build_paragraph(rng, 4), LAMBDA p1 :
         Bind(build_paragraph(p1.rng, 5), LAMBDA p2 :
         Bind(build_paragraph(p2.rng, 5), LAMBDA p3 :
             [val |-> <<p1.val, p2.val, p3.val>>, rng |-> p3.rng])))
    ELSE IF length = "medium"
    THEN Bind(build_paragraph(rng, 3), LAMBDA p1 :
         Bind(build_paragraph(p1.rng, 4), LAMBDA p2 :
             [val |-> <<p1.val, p2.val>>, rng |-> p2.rng]))
    ELSE Bind(build_paragraph(rng, 3), LAMBDA p1 : [val |-> <<p1.val>>, rng |-> p1.rng])

\* a passage is the sequence of its paragraphs (joined by "\n\n" in the code)
make_passage(rng, length) ==
    IF length = "long"
    THEN Bind(build_paragraph(rng, 5), LAMBDA p1 :
         Bind(build_paragraph(p1.rng, 5), LAMBDA p2 :
         Bind(build_paragraph(p2.rng, 4), LAMBDA p3 :
             [val |-> <<p1.val, p2.val, p3.val>>, rng |-> p3.rng])))
    ELSE IF length = "medium"
    THEN Bind(build_paragraph(rng, 4), LAMBDA p1 :
         Bind(build_paragraph(p1.rng, 3), LAMBDA p2 :
             [val |-> <<p1.val, p2.val>>, rng |-> p2.rng]))
    ELSE Bind(build_paragraph(rng, 3), LAMBDA p1 : [val |-> <<p1.val>>, rng |-> p1.rng])

p7_short_bank(domain) ==
    LET prod == domain_lex(domain).ad_item
    IN <<
      [passage |-> <<"Notice:", "The downtown library will close at 5 p.m. on Friday for a private event. Regular hours resume Saturday.">>,
       stem |-> <<"What will happen on Friday evening?">>,
       opts |-> <<<<"The library will host a private event.">>, <<"The library will extend its hours.">>, <<"The library will open a new branch.">>, <<"The library will be under renovation.">>>>,
       correct_idx |-> 0,
       note |-> <<"note.p7_short_1">>],
      [passage |-> <<"FAQ:", "How do I change my account e-mail? Go to Settings > Profile and select 'Update E-mail'.">>,
       stem |-> <<"What should users do to change their e-mail?">>,
       opts |-> <<<<"Open the Settings page and update it.">>, <<"Contact customer support by phone.">>, <<"Fill out a paper form.">>, <<"Send a fax to the office.">>>>,
       correct_idx |-> 0,
       note |-> <<"note.p7_short_2">>],
      [passage |-> <<"Schedule:", "Airport Shuttle - Departures: 08:00, 09:30, 11:00. Returns: 14:00, 16:30, 19:00.">>,
       stem |-> <<"When is the next shuttle after 9 a.m.?">>,
       opts |-> <<<<"09:30">>, <<"08:00">>, <<"11:00">>, <<"14:00">>>>,
       correct_idx |-> 0,
       note |-> <<"note.p7_short_3">>],
      [passage |-> <<"Ad:", "Sign up this week and get 30% off our ", prod, ".">>,
       stem |-> <<"What is the main offer in the ad?">>,
       opts |-> <<<<"A 30% discount for sign-ups this week.">>, <<"A free trial for one month.">>, <<"A buy-one-get-one deal.">>, <<"A free upgrade for all users.">>>>,
       correct_idx |-> 0,
       note |-> <<"note.p7_short_4">>],
      [passage |-> <<"Review:", "The new model is lightweight and easy to carry, but the screen brightness could be higher.">>,
       stem |-> <<"What is one criticism mentioned in the review?">>,
       opts |-> <<<<"The screen is not bright enough.">>, <<"It is too heavy.">>, <<"It is complicated to use.">>, <<"The battery drains too fast.">>>>,
       correct_idx |-> 0,
       note |-> <<"note.p7_short_5">>],
      [passage |-> <<"Notice:", "The cafeteria will be closed on Tuesday afternoon for equipment maintenance.">>,
       stem |-> <<"What will happen on Tuesday afternoon?">>,
       opts |-> <<<<"The cafeteria will be closed.">>, <<"The cafeteria will extend hours.">>, <<"A new cafeteria will open.">>, <<"Free meals will be offered.">>>>,
       correct_idx |-> 0,
       note |-> <<"note.p7_short_6">>],
      [passage |-> <<"Job Posting:", "We are seeking a part-time receptionist with weekend availability.">>,
       stem |-> <<"What is one requirement for the position?">>,
       opts |-> <<<<"Availability on weekends.">>, <<"A full-time schedule.">>, <<"Experience in construction.">>, <<"International travel.">>>>,
       correct_idx |-> 0,
       note |-> <<"note.p7_short_7">>],
      [passage |-> <<"Invoice:", "Balance due by June 30. Please include the invoice number with your payment.">>,
       stem |-> <<"When is the balance due?">>,
       opts |-> <<<<"By June 30.">>, <<"By June 15.">>, <<"On July 1.">>, <<"Within seven days.">>>>,
       correct_idx |-> 0,
       note |-> <<"note.p7_short_8">>],
      [passage |-> <<"Policy:", "Personal devices must be kept in silent mode during meetings.">>,
       stem |-> <<"What must employees do during meetings?">>,
       opts |-> <<<<"Keep personal devices in silent mode.">>, <<"Turn off all lights.">>, <<"Report to security.">>, <<"Wear ID badges at home.">>>>,
       correct_idx |-> 0,
       note |-> <<"note.p7_short_9">>],
      [passage |-> <<"FAQ:", "Can I return items without a receipt? Returns without a receipt are accepted for store credit only.">>,
       stem |-> <<"What happens if you return an item without a receipt?">>,
       opts |-> <<<<"You receive store credit.">>, <<"You receive a full refund.">>, <<"The return is not accepted.">>, <<"You must pay a fee.">>>>,
       correct_idx |-> 0,
       note |-> <<"note.p7_short_10">>],
      [passage |-> <<"Schedule:", "Trains to Central - 08:10, 08:40, 09:05, 09:50.">>,
       stem |-> <<"Which train departs after 9 a.m.?">>,
       opts |-> <<<<"09:05">>, <<"08:40">>, <<"08:10">>, <<"09:50">>>>,
       correct_idx |-> 0,
       note |-> <<"note.p7_short_11">>],
      [passage |-> <<"Press Release:", "Norvia Labs will open a new research center in August to expand its testing capacity.">>,
       stem |-> <<"What is Norvia Labs planning to do?">>,
       opts |-> <<<<"Open a new research center.">>, <<"Close its main office.">>, <<"Discontinue testing services.">>, <<"Relocate overseas immediately.">>>>,
       correct_idx |-> 0,
       note |-> <<"note.p7_short_12">>],
      [passage |-> <<"Menu:", "Lunch Set includes soup, a main dish, and coffee or tea.">>,
       stem |-> <<"What is included in the lunch set?">>,
       opts |-> <<<<"Soup and a main dish with a drink.">>, <<"Only a main dish.">>, <<"Dessert and coffee only.">>, <<"Two main dishes.">>>>,
       correct_idx |-> 0,
       note |-> <<"note.p7_short_13">>],
      [passage |-> <<"Parking Rates:", "$3 per hour; maximum daily rate $12.">>,
       stem |-> <<"How much is the maximum daily parking rate?">>,
       opts |-> <<<<"$12">>, <<"$3">>, <<"$6">>, <<"$9">>>>,
       correct_idx |-> 0,
       note |-> <<"note.p7_short_14">>],
      [passage |-> <<"Event:", "Community Cleanup - Saturday 9 a.m. Registration closes Thursday at 5 p.m.">>,
       stem |-> <<"When does registration close?">>,
       opts |-> <<<<"Thursday at 5 p.m.">>, <<"Friday at noon.">>, <<"Saturday at 9 a.m.">>, <<"Sunday morning.">>>>,
       correct_idx |-> 0,
       note |-> <<"note.p7_short_15">>],
      [passage |-> <<"Weather Alert:", "High winds expected overnight. Secure outdoor items.">>,
       stem |-> <<"What does the alert advise people to do?">>,
       opts |-> <<<<"Secure outdoor items.">>, <<"Open all windows.">>, <<"Drive at high speed.">>, <<"Cancel indoor events.">>>>,
       correct_idx |-> 0,
       note |-> <<"note.p7_short_16">>],
      [passage |-> <<"Post:", "Our pop-up store opens at 11 a.m. today - first 50 visitors get a free tote bag!">>,
       stem |-> <<"What is offered to early visitors?">>,
       opts |-> <<<<"A free tote bag.">>, <<"A free lunch.">>, <<"A 70% discount.">>, <<"A free umbrella.">>>>,
       correct_idx |-> 0,
       note |-> <<"note.p7_short_17">>],
      [passage |-> <<"Interview Schedule:", "Candidates should arrive 15 minutes early and bring photo ID.">>,
       stem |-> <<"What must candidates bring?">>,
       opts |-> <<<<"A photo ID.">>, <<"A recommendation letter.">>, <<"A passport-sized photo.">>, <<"A laptop.">>>>,
       correct_idx |-> 0,
       note |-> <<"note.p7_short_18">>]
    >>

\* b[0].startswith(prefix)
startswith(passage, prefix) == passage[1] = prefix

\* the label each recognised genre filters the short bank by
p7_genre_prefix(genre) ==
    CASE genre = "faq" -> "FAQ:"
      [] genre = "schedule" -> "Schedule:"
      [] genre = "advertisement" -> "Ad:"
      [] genre = "review" -> "Review:"
      [] genre \in {"notice", "internal_notice"} -> "Notice:"
      [] genre = "policy" -> "Policy:"
      [] genre = "press_release" -> "Press Release:"
      [] genre = "invoice" -> "Invoice:"
      [] genre = "menu" -> "Menu:"
      [] genre = "event" -> "Event:"
      [] genre = "weather" -> "Weather Alert:"
      [] genre = "job_posting" -> "Job Posting:"
      [] genre = "parking" -> "Parking Rates:"
      [] genre = "social_post" -> "Post:"
      [] genre = "interview" -> "Interview Schedule:"
      [] genre = "newsletter" -> "Newsletter:"
      [] OTHER -> NONE

p7_pool_unfiltered(genre, short_bank) == short_bank

p7_pool_no_fallback(genre, short_bank) ==
    IF p7_genre_prefix(genre) = NONE THEN short_bank
    ELSE LET Hit(b) == startswith(b.passage, p7_genre_prefix(genre))
         IN Bind(SelectSeq(short_bank, Hit), LAMBDA candidates :
                 IF candidates # <<>> THEN candidates ELSE <<short_bank[1]>>)

\* the sequence rng.choice draws from: candidates or short_bank
p7_pool(genre, short_bank) ==
    IF p7_genre_prefix(genre) = NONE THEN short_bank
    ELSE LET Hit(b) == startswith(b.passage, p7_genre_prefix(genre))
         IN Bind(SelectSeq(short_bank, Hit), LAMBDA candidates :
                 IF candidates # <<>> THEN candidates ELSE short_bank)

\* "<phrase>" in passage, for the five trigger phrases of the rationale hint:
\* of the bank passages only the library notice contains one ("private event")
phrase_in(phrase, passage) ==
    /\ phrase = "private event"
    /\ passage = <<"Notice:", "The downtown library will close at 5 p.m. on Friday for a private event. Regular hours resume Saturday.">>

\* the if/elif chain that sets key_hint
p7_key_hint(passage) ==
    IF phrase_in("private event", passage) THEN "hint.private_event"
    ELSE IF phrase_in("attached the draft agenda", passage) THEN "hint.draft_agenda"
    ELSE IF phrase_in("Registration includes", passage) THEN "hint.registration"
    ELSE IF phrase_in("The elevator is out of service", passage) THEN "hint.elevator"
    ELSE IF phrase_in("battery life", passage) THEN "hint.battery_life"
    ELSE ""

p7_mentioned_objects ==
    <<"a new outreach program", "a series of workshops", "a pilot project",
      "an employee wellness initiative">>

\* the medium/long branch of gen_part7's loop body
p7_long_question(i, rng, length) ==
    Bind(make_passage(rng, length), LAMBDA p :
    Bind(random_lt_half(p.rng), LAMBDA t :
    IF t.val
    THEN Bind(label_options(<<<<"To announce or describe an upcoming initiative.">>,
                              <<"To provide technical instructions for repairs.">>,
                              <<"To advertise discounted products.">>,
                              <<"To issue a safety recall notice.">>>>, 0, t.rng), LAMBDA lab :
             [q |-> [id |-> <<"G-P7-Q", i + 1>>,
                     context |-> [passage |-> p.val],
                     stem |-> <<"What is the main purpose of the passage?">>,
                     options |-> lab.labeled,
                     answer |-> lab.answer,
                     explanationJa |-> <<"note.p7_main_purpose">>],
              rng |-> lab.rng])
    ELSE Bind(choice(t.rng, p7_mentioned_objects), LAMBDA correct_obj :
         Bind(label_options(<<<<"Plans to introduce ", correct_obj.val, ".">>,
                              <<"A recall of defective devices.">>,
                              <<"A storewide 50% discount.">>,
                              <<"Instructions to repair machinery.">>>>, 0, correct_obj.rng),
              LAMBDA lab :
             [q |-> [id |-> <<"G-P7-Q", i + 1>>,
                     context |-> [passage |-> p.val],
                     stem |-> <<"Which of the following is mentioned in the passage?">>,
                     options |-> lab.labeled,
                     answer |-> lab.answer,
                     explanationJa |-> <<"note.p7_mentioned">>],
              rng |-> lab.rng]))))

\* the short branch of gen_part7's loop body
p7_short_question(i, rng, genre, domain) ==
    Bind(p7_pool(genre, p7_short_bank(domain)), LAMBDA pool :
    Bind(choice(rng, pool), LAMBDA b :
    Bind(label_options(b.val.opts, b.val.correct_idx, b.rng), LAMBDA lab :
        [q |-> [id |-> <<"G-P7-Q", i + 1>>,
                context |-> [passage |-> b.val.passage],
                stem |-> b.val.stem,
                options |-> lab.labeled,
                answer |-> lab.answer,
                explanationJa |-> <<"note.p7_short_prefix", p7_key_hint(b.val.passage),
                                    "note.p7_short_suffix">>],
         rng |-> lab.rng])))

\* one iteration of gen_part7's loop, i the 0-based loop index
p7_question(i, rng, length, genre, domain) ==
    IF length \in {"medium", "long"}
    THEN p7_long_question(i, rng, length)
    ELSE p7_short_question(i, rng, genre, domain)

RECURSIVE p7_loop(_, _, _, _, _, _, _)
p7_loop(i, count, rng, length, genre, domain, questions) ==
    IF i >= count THEN [questions |-> questions, rng |-> rng]
    ELSE Bind(p7_question(i, rng, length, genre, domain), LAMBDA s :
         Bind(Append(questions, s.q), LAMBDA qs :
              p7_loop(i + 1, count, s.rng, length, genre, domain, qs)))

gen_part7(count, rng, length, difficulty, genre, domain) ==
    Bind(p7_loop(0, count, rng, length, genre, domain, <<>>), LAMBDA l :
        [block |-> [part |-> 7,
                    name |-> "Reading Comprehension",
                    instructions |-> "Read the passage and choose the best answer.",
                    questions |-> l.questions],
         rng |-> l.rng])

-----------------------------------------------------------------------------
(* generate_dataset                                                        *)

part_list_as_given(parts) == IF parts = Nothing THEN <<>> ELSE parts[1]

\* part_list = parts or [5, 6, 7]
part_list(parts) ==
    IF parts = Nothing \/ parts[1] = <<>> THEN <<5, 6, 7>> ELSE parts[1]

\* the keys of the generators dict
generators == 1..7

\* if gen and p in (5, 6, 7)
dispatched(p) == p \in generators /\ p \in {5, 6, 7}

\* p7_length or "short"
or_default(v, default) == IF v = NONE \/ v = "" THEN default ELSE v

RECURSIVE dispatch_loop(_, _, _, _, _)
dispatch_loop(a, plist, k, rng, out_parts) ==
    IF k > Len(plist) THEN out_parts
    ELSE IF dispatched(plist[k])
    THEN Bind(IF plist[k] = 7
              THEN gen_part7(a.per_part, rng, or_default(a.p7_length, "short"),
                             a.difficulty, a.genre, a.domain)
              ELSE IF plist[k] = 6
              THEN gen_part6(a.per_part, rng, a.difficulty, a.genre, a.domain)
              ELSE gen_part5(a.per_part, rng, a.difficulty, a.genre, a.domain), LAMBDA g :
         Bind(Append(out_parts, g.block), LAMBDA out :
              dispatch_loop(a, plist, k + 1, g.rng, out)))
    ELSE dispatch_loop(a, plist, k + 1, rng, out_parts)

\* the body of generate_dataset after rng = random.Random(seed)
generate_dataset(a, rng, date) ==
    Bind(part_list(a.parts), LAMBDA plist :
    [title |-> a.title,
     version |-> "1.0.0",
     language |-> "en",
     explanationsLanguage |-> "ja",
     createdAt |-> date,
     parts |-> dispatch_loop(a, plist, 1, rng, <<>>),
     metadata |-> [noteJa |-> "note.generated"]])

-----------------------------------------------------------------------------
(* The inputs the harnesses draw.                                          *)

DefaultTitle == "TOEIC Mock Test - Generated"

Days == <<"2025-11-01", "2025-11-02">>

GenreTags ==
    {"faq", "schedule", "advertisement", "review", "notice", "internal_notice",
     "policy", "press_release", "invoice", "menu", "event", "weather",
     "job_posting", "parking", "social_post", "interview", "newsletter"}

\* every combination of a few values of each argument
BroadInputs ==
    [title : {DefaultTitle},
     seed : {Nothing} \cup {Some(s) : s \in 0..MaxSeed},
     parts : {Nothing, Some(<<>>), Some(<<5>>), Some(<<6>>), Some(<<7>>),
              Some(<<5, 6, 7>>), Some(<<7, 5>>), Some(<<6, 6>>), Some(<<2>>),
              Some(<<0, 6, 8>>), Some(<<1, 2, 3, 4>>)},
     per_part : 0..MaxPerPart,
     p7_length : {NONE, "short", "medium", "long"},
     difficulty : {NONE, "hard"},
     genre : {NONE, "faq"},
     domain : {NONE, "IT"}]

\* Part 6 alone, over many seeds
Part6Inputs ==
    [title : {DefaultTitle},
     seed : {Some(s) : s \in 0..MaxSeedP6},
     parts : {Some(<<6>>)},
     per_part : 1..MaxPerPart,
     p7_length : {NONE},
     difficulty : {NONE},
     genre : {NONE},
     domain : {NONE, "Hospitality"}]

\* Part 7 short passages, over every genre tag
Part7Inputs ==
    [title : {DefaultTitle},
     seed : {Some(s) : s \in 0..MaxSeedP7},
     parts : {Some(<<7>>)},
     per_part : 1..MaxPerPart,
     p7_length : {NONE, "short"},
     difficulty : {NONE},
     genre : GenreTags \cup {NONE, "manual"},
     domain : {NONE, "finance"}]

GenInputs == BroadInputs \cup Part6Inputs \cup Part7Inputs

-----------------------------------------------------------------------------
(* Generator harness: the caller draws arguments, calls generate_dataset   *)
(* twice with them, and the date may change in between.                    *)

GenIdle == /\ args = Nothing /\ today = Days[1] /\ results = <<>>
LabelIdle == lo_args = Nothing /\ lo_ret = Nothing
FilterIdle == heap = <<>> /\ f_arg = 0 /\ f_ret = 0
UiIdle == dash = Nothing /\ st = Nothing
LexIdle == lex_call = Nothing
P5Idle == p5_seen = Nothing
P7Idle == p7_seen = Nothing
HintsIdle == hints = Nothing
ImportIdle == imp = Nothing
CliIdle == cli = Nothing

InitGen ==
    /\ args \in {Some(a) : a \in GenInputs}
    /\ today = Days[1]
    /\ results = <<>>
    /\ LabelIdle
    /\ FilterIdle
    /\ UiIdle
    /\ LexIdle
    /\ P5Idle
    /\ P7Idle
    /\ HintsIdle
    /\ ImportIdle
    /\ CliIdle

GenerateDataset ==
    /\ args # Nothing
    /\ Len(results) < 2
    /\ \E rng \in Random(args[1].seed) :
         results' = Append(results, generate_dataset(args[1], rng, today))
    /\ UNCHANGED <<args, today, lo_args, lo_ret, heap, f_arg, f_ret, dash, st, lex_call, p5_seen, imp, cli, p7_seen, hints>>

Midnight ==
    /\ args # Nothing
    /\ today = Days[1]
    /\ today' = Days[2]
    /\ UNCHANGED <<args, results, lo_args, lo_ret, heap, f_arg, f_ret, dash, st, lex_call, p5_seen, imp, cli, p7_seen, hints>>

NextGen == GenerateDataset \/ Midnight

Spec == InitGen /\ [][NextGen]_vars

-----------------------------------------------------------------------------
(* Labeler harness: _label_options applied to drawn inputs.                *)

LabelWords == {"submit", "review", "cancel"}

RECURSIVE SeqsUpTo(_, _)
\* the sequences over S of length at most n
SeqsUpTo(S, n) ==
    IF n = 0 THEN {<<>>}
    ELSE LET shorter == SeqsUpTo(S, n - 1)
         IN shorter \cup {Append(s, x) : s \in {t \in shorter : Len(t) = n - 1}, x \in S}

LabelInputs ==
    {[options_plain |-> o, correct_index |-> i, rng |-> rng_seed(s)] :
        o \in {x \in SeqsUpTo({<<w>> : w \in LabelWords}, MaxOptions) : Len(x) >= 1},
        i \in 0..(MaxOptions - 1),
        s \in 0..MaxLabelSeed}

InitLabel ==
    /\ lo_args \in {Some(a) : a \in {x \in LabelInputs : x.correct_index < Len(x.options_plain)}}
    /\ lo_ret = Nothing
    /\ GenIdle
    /\ FilterIdle
    /\ UiIdle
    /\ LexIdle
    /\ P5Idle
    /\ P7Idle
    /\ HintsIdle
    /\ ImportIdle
    /\ CliIdle

LabelOptions ==
    /\ lo_args # Nothing
    /\ lo_ret = Nothing
    /\ lo_ret' = Some(label_options(lo_args[1].options_plain, lo_args[1].correct_index,
                                    lo_args[1].rng))
    /\ UNCHANGED <<args, today, results, lo_args, heap, f_arg, f_ret, dash, st, lex_call, p5_seen, imp, cli, p7_seen, hints>>

\* a second call with the same options and the same generator instance,
\* which is in the state the first call left; lo_ret holds both results
LabelOptionsAgain ==
    /\ lo_args # Nothing
    /\ Len(lo_ret) = 1
    /\ lo_ret' = Append(lo_ret, label_options(lo_args[1].options_plain,
                                              lo_args[1].correct_index, lo_ret[1].rng))
    /\ UNCHANGED <<args, today, results, lo_args, heap, f_arg, f_ret, dash, st, lex_call, p5_seen, imp, cli, p7_seen, hints>>

NextLabel == LabelOptions \/ LabelOptionsAgain

SpecLabel == InitLabel /\ [][NextLabel]_vars

-----------------------------------------------------------------------------
(* filter_reading_only over a heap of dicts and lists.                     *)
(* heap[id] is a dict (a record of its entries, each optional entry held   *)
(* as Nothing or Some(value)) or a list (the sequence of its items' ids).  *)

PartValues == {Nothing, Some(1), Some(4), Some(5), Some(6), Some(7)}

\* a Dataset dict at id 1 whose "parts" entry is the list at id 2 of the
\* block dicts at ids 3, 4, ...
HeapOf(blocks) ==
    <<[kind |-> "dict", title |-> "t", parts |-> Some(2)],
      [kind |-> "list", items |-> [k \in 1..Len(blocks) |-> k + 2]]>>
    \o [k \in 1..Len(blocks) |-> [kind |-> "dict", part |-> blocks[k]]]

\* a dict without a "parts" entry
HeapNoParts == <<[kind |-> "dict", title |-> "t", parts |-> Nothing]>>

\* int(p.get("part", 0))
block_part(h, b) == IF h[b].part = Nothing THEN 0 ELSE h[b].part[1]

\* data.get("parts", [])
get_parts(h, data) == IF h[data].parts = Nothing THEN <<>> ELSE h[h[data].parts[1]].items

filter_reading_only_in_place(h, data) ==
    LET Keep(b) == block_part(h, b) >= 5
        parts == SelectSeq(get_parts(h, data), Keep)
        list_id == Len(h) + 1
    IN [heap |-> Append([h EXCEPT ![data].parts = Some(list_id)],
                        [kind |-> "list", items |-> parts]),
        ret |-> data]

\* parts = [...]; data = dict(data); data["parts"] = parts; return data
filter_reading_only(h, data) ==
    LET Keep(b) == block_part(h, b) >= 5
        parts == SelectSeq(get_parts(h, data), Keep)
        list_id == Len(h) + 1
        copy_id == Len(h) + 2
    IN [heap |-> h \o <<[kind |-> "list", items |-> parts],
                        [h[data] EXCEPT !.parts = Some(list_id)]>>,
        ret |-> copy_id]

InitFilter ==
    /\ heap \in {HeapOf(b) : b \in SeqsUpTo(PartValues, MaxBlocks)} \cup {HeapNoParts}
    /\ f_arg = 1
    /\ f_ret = 0
    /\ GenIdle
    /\ LabelIdle
    /\ UiIdle
    /\ LexIdle
    /\ P5Idle
    /\ P7Idle
    /\ HintsIdle
    /\ ImportIdle
    /\ CliIdle

FilterReadingOnly ==
    /\ f_arg # 0
    /\ f_ret = 0
    /\ LET r == filter_reading_only(heap, f_arg)
       IN heap' = r.heap /\ f_ret' = r.ret
    /\ UNCHANGED <<args, today, results, lo_args, lo_ret, f_arg, dash, st, lex_call, p5_seen, imp, cli, p7_seen, hints>>

NextFilter == FilterReadingOnly

SpecFilter == InitFilter /\ [][NextFilter]_vars


-----------------------------------------------------------------------------
(* _domain_lex called on its own.                                          *)

\* the tags passed: every spelled string, and None
LexTags == DOMAIN Spelling \cup {NONE}

InitLex ==
    /\ lex_call \in {Some([domain |-> d, bundle |-> Nothing]) : d \in LexTags}
    /\ GenIdle
    /\ LabelIdle
    /\ FilterIdle
    /\ UiIdle
    /\ P5Idle
    /\ P7Idle
    /\ HintsIdle
    /\ ImportIdle
    /\ CliIdle

DomainLex ==
    /\ lex_call # Nothing
    /\ lex_call[1].bundle = Nothing
    /\ lex_call' = Some([lex_call[1] EXCEPT !.bundle = Some(domain_lex(lex_call[1].domain))])
    /\ UNCHANGED <<args, today, results, lo_args, lo_ret, heap, f_arg, f_ret, dash, st, p5_seen, imp, cli, p7_seen, hints>>

NextLex == DomainLex

SpecLex == InitLex /\ [][NextLex]_vars

-----------------------------------------------------------------------------
(* gen_part5 called again and again with one difficulty and the seeds      *)
(* 0, 1, 2, ...; p5_seen collects, for each question position, the         *)
(* archetypes the questions came from.                                     *)

MaxSeedP5 == 300

Difficulties == {NONE, "easy", "medium", "hard", "HARD"}

\* the archetype of a Part 5 question: its explanation names it
p5_archetype(q) == q.explanationJa[1]

InitP5 ==
    /\ p5_seen \in {Some([difficulty |-> d, seed |-> 0,
                          seen |-> [i \in 1..MaxPerPart |-> {}], last |-> <<>>]) :
                    d \in Difficulties}
    /\ GenIdle
    /\ LabelIdle
    /\ FilterIdle
    /\ UiIdle
    /\ LexIdle
    /\ P7Idle
    /\ HintsIdle
    /\ ImportIdle
    /\ CliIdle

GenPart5 ==
    /\ p5_seen # Nothing
    /\ p5_seen[1].seed <= MaxSeedP5
    /\ LET qs == gen_part5(MaxPerPart, rng_seed(p5_seen[1].seed), p5_seen[1].difficulty,
                           NONE, NONE).block.questions
       IN p5_seen' = Some([p5_seen[1] EXCEPT
                             !.seed = @ + 1,
                             !.seen = [i \in 1..MaxPerPart |-> @[i] \cup {p5_archetype(qs[i])}],
                             !.last = qs])
    /\ UNCHANGED <<args, today, results, lo_args, lo_ret, heap, f_arg, f_ret, dash, st, lex_call, imp, cli, p7_seen, hints>>

NextP5 == GenPart5

SpecP5 == InitP5 /\ [][NextP5]_vars
-----------------------------------------------------------------------------
(* Helpers the two front-ends share (app.py and streamlit_app.py each      *)
(* define them).                                                           *)

MaxUiSeed == 1
MaxHistory == 1

\* the dict filter_reading_only returns, as a value
reading_only(data) ==
    LET Reading(p) == p.part >= 5
    IN [data EXCEPT !.parts = SelectSeq(data.parts, Reading)]

RECURSIVE collect_questions_from(_, _)
collect_questions_from(parts, k) ==
    IF k > Len(parts) THEN <<>>
    ELSE [j \in 1..Len(parts[k].questions) |->
             parts[k].questions[j] @@ [q_part |-> parts[k].part, q_part_name |-> parts[k].name]]
         \o collect_questions_from(parts, k + 1)

\* qc = dict(q) with "_part" and "_part_name" added, over all blocks
collect_questions(data) == collect_questions_from(data.parts, 1)

first_only_all(questions) == questions

\* questions[:1]
first_only(questions) == SubSeq(questions, 1, IF Len(questions) >= 1 THEN 1 ELSE 0)

\* the letter of a labeled option, None when it carries no A-D label
option_to_letter(opt) ==
    IF Len(opt) >= 1 /\ opt[1] \in {"A", "B", "C", "D"} THEN opt[1] ELSE NONE

\* the option text without its label
strip_option_label(opt) ==
    IF Len(opt) >= 1 /\ opt[1] \in {"A", "B", "C", "D"} THEN Tail(opt) ELSE opt

normalize_answer_letter(ans) == IF ans \in {"A", "B", "C", "D"} THEN ans ELSE NONE

\* letter = option_to_letter(opt) or chr(ord("A") + i)
radio_letters(q) ==
    [k \in 1..Len(q.options) |->
        IF option_to_letter(q.options[k]) # NONE THEN option_to_letter(q.options[k])
        ELSE chr_A(k - 1)]

derive_stem(q) ==
    IF "stem" \in DOMAIN q THEN q.stem
    ELSE IF "passage" \in DOMAIN q.context THEN q.context.passage
    ELSE <<"Select the best answer">>

fallback_question(part) ==
    IF part = 5
    THEN [id |-> <<"FB-P5-Q", 1>>,
          stem |-> <<"Please choose the best word: We will ______ the report by Friday.">>,
          options |-> <<<<"A", "submit">>, <<"B", "repair">>, <<"C", "cancel">>,
                        <<"D", "extend">>>>,
          answer |-> "A",
          explanationJa |-> <<"note.fallback_p5">>]
    ELSE IF part = 6
    THEN [id |-> <<"FB-P6-Q", 1>>,
          context |-> [text |-> <<"Reminder: The meeting will start at 10 a.m. Please ",
                                  "[_____]", " on time.">>],
          options |-> <<<<"A", "arrive">>, <<"B", "arriving">>, <<"C", "arrival">>,
                        <<"D", "arrived">>>>,
          answer |-> "A",
          explanationJa |-> <<"note.fallback_p6">>]
    ELSE [id |-> <<"FB-P7-Q", 1>>,
          context |-> [passage |-> <<"Notice:", "The cafe will close at 6 p.m. today for maintenance.">>],
          stem |-> <<"Why will the cafe close early?">>,
          options |-> <<<<"A", "For maintenance">>, <<"B", "For a special event">>,
                        <<"C", "Due to a holiday">>, <<"D", "Because of a staff meeting">>>>,
          answer |-> "A",
          explanationJa |-> <<"note.fallback_p7">>]

fallback_dataset_default(part) ==
    [title |-> "Fallback - Single Question",
     version |-> "1.0.0",
     language |-> "en",
     explanationsLanguage |-> "ja",
     createdAt |-> "",
     parts |-> <<[part |-> 5, name |-> "Incomplete Sentences", instructions |-> "",
                  questions |-> <<fallback_question(5)>>]>>,
     metadata |-> [noteJa |-> "note.fallback"]]

fallback_dataset(part) ==
    LET p == IF part \notin {5, 6, 7} THEN 5 ELSE part
    IN [title |-> "Fallback - Single Question",
        version |-> "1.0.0",
        language |-> "en",
        explanationsLanguage |-> "ja",
        createdAt |-> "",
        parts |-> <<[part |-> p,
                     name |-> IF p = 5 THEN "Incomplete Sentences"
                              ELSE IF p = 6 THEN "Text Completion"
                              ELSE "Reading Comprehension",
                     instructions |-> "",
                     questions |-> <<fallback_question(p)>>]>>,
        metadata |-> [noteJa |-> "note.fallback"]]

\* {"index": 0, "score": 0, "answered": False}
state_reset == [index |-> 0, score |-> 0, answered |-> FALSE]

\* the arguments the front-ends pass to the local generator
single_question_args(part_num, seed, p7_length, difficulty, genre, domain) ==
    [title |-> "TOEIC Mock - Single Question",
     seed |-> seed,
     parts |-> Some(<<part_num>>),
     per_part |-> 1,
     p7_length |-> or_default(p7_length, "long"),
     difficulty |-> difficulty,
     genre |-> genre,
     domain |-> domain]

\* generate_dataset_openai: it raises (Nothing) or returns a dataset of the
\* generator's schema: with questions for the requested part (more than the
\* one asked for, possibly) or without any
generate_dataset_openai(part_num, p7_length, date) ==
    {Nothing,
     Some([generate_dataset([single_question_args(part_num, Some(0), p7_length,
                                                  NONE, NONE, NONE) EXCEPT !.per_part = 2],
                            rng_seed(0), date)
           EXCEPT !.title = "TOEIC Mock - Single Question (LLM)"]),
     Some([fallback_dataset(part_num) EXCEPT !.parts = <<>>])}

\* the same outcomes, worked out once for each part, length and date
llm_outcomes ==
    [part_num \in {5, 6, 7}, p7_length \in {"short", NONE}, date \in {Days[k] : k \in 1..Len(Days)}
        |-> generate_dataset_openai(part_num, p7_length, date)]

\* a value a form control posts: None, a number, or a text (its characters)
form_none == [kind |-> "none", n |-> 0, s |-> <<>>]
form_int(n) == [kind |-> "int", n |-> n, s |-> <<>>]
form_text(s) == [kind |-> "str", n |-> 0, s |-> s]

Digit ==
    "0" :> 0 @@ "1" :> 1 @@ "2" :> 2 @@ "3" :> 3 @@ "4" :> 4 @@
    "5" :> 5 @@ "6" :> 6 @@ "7" :> 7 @@ "8" :> 8 @@ "9" :> 9

RECURSIVE int_digits(_, _)
int_digits(s, acc) ==
    IF s = <<>> THEN acc ELSE int_digits(Tail(s), 10 * acc + Digit[Head(s)])

\* int(v) of a posted value; Nothing when it raises (None, a text that is
\* not a decimal numeral)
py_int(v) ==
    IF v.kind = "int" THEN Some(v.n)
    ELSE IF v.kind = "str" /\ v.s # <<>> /\ \A k \in 1..Len(v.s) : v.s[k] \in DOMAIN Digit
    THEN Some(int_digits(v.s, 0))
    ELSE Nothing

\* int(section_value) if section_value in (5, 6, 7) else 7
section_part(section_value) ==
    IF section_value.kind = "int" /\ section_value.n \in {5, 6, 7} THEN section_value.n ELSE 7

\* None if seed in (None, "") else int(seed); raised when int() raises
seed_val(seed) ==
    IF seed.kind = "none" \/ (seed.kind = "str" /\ seed.s = <<>>)
    THEN [raised |-> FALSE, val |-> Nothing]
    ELSE [raised |-> py_int(seed) = Nothing, val |-> py_int(seed)]

\* the seed input (type number, may be empty) and the section dropdown
UiSeeds == {form_none} \cup {form_int(s) : s \in 0..MaxUiSeed}
DashSections == {form_int(p) : p \in {5, 6, 7}}

\* what a client can post to the callback for the same three inputs
PostedSeeds ==
    UiSeeds \cup {form_text(<<>>), form_text(<<"a">>), form_text(<<"1">>)}
PostedSections ==
    DashSections \cup {form_int(4), form_none, form_text(<<"7">>)}
PostedLengths == {"short", NONE}

UiLengths == {"short"}
UiEngines == {"local", "openai"}
UiSections == {5, 6, 7}

-----------------------------------------------------------------------------
(* Dash (app.py).  dash[1] holds dataset-store, state-store, the value of  *)
(* the "choice" radio and the callback that ran last.                      *)

\* on_load's return value for dataset-store: the list under "questions";
\* sv is seed_val(seed), llm the outcome of the LLM call (Nothing: it raised)
on_load_questions(engine, section_value, sv, p7_length, llm, rng, date) ==
    LET part_num == section_part(section_value)
        data == IF engine = "openai"
                THEN IF llm = Nothing THEN fallback_dataset(part_num) ELSE llm[1]
                ELSE generate_dataset(single_question_args(part_num, sv.val, p7_length,
                                                           NONE, NONE, NONE), rng, date)
        questions == first_only(collect_questions(reading_only(data)))
    IN IF sv.raised THEN collect_questions(fallback_dataset(part_num))
       ELSE IF Len(questions) = 0 THEN collect_questions(fallback_dataset(part_num))
       ELSE questions

state_answered_never(state) == FALSE

\* state.get("answered")
state_answered(state) == state.answered

on_submit_state_ungated(dataset, state, choice_value) ==
    IF dataset = Nothing \/ Len(dataset[1].questions) = 0 THEN Nothing
    ELSE IF choice_value = NONE THEN Nothing
    ELSE LET q == dataset[1].questions[state.index + 1]
             is_correct == choice_value = q.answer
         IN Some([index |-> state.index,
                  score |-> state.score + (IF is_correct THEN 1 ELSE 0),
                  answered |-> TRUE])

on_submit_state_no_choice(dataset, state, choice_value) ==
    IF dataset = Nothing \/ Len(dataset[1].questions) = 0 THEN Nothing
    ELSE IF state_answered(state) THEN Nothing
    ELSE LET q == dataset[1].questions[state.index + 1]
             is_correct == choice_value = q.answer
         IN Some([index |-> state.index,
                  score |-> state.score + (IF is_correct THEN 1 ELSE 0),
                  answered |-> TRUE])

\* on_submit's return value: Nothing is no_update
on_submit_state(dataset, state, choice_value) ==
    IF dataset = Nothing \/ Len(dataset[1].questions) = 0 THEN Nothing
    ELSE IF state_answered(state) THEN Nothing
    ELSE IF choice_value = NONE THEN Nothing
    ELSE LET q == dataset[1].questions[state.index + 1]
             is_correct == choice_value = q.answer
         IN Some([index |-> state.index,
                  score |-> state.score + (IF is_correct THEN 1 ELSE 0),
                  answered |-> TRUE])

\* the layout: an empty dataset-store and the initial state-store; request
\* is what the last on_load received, prev_state the state-store before
\* the last callback's outputs were applied
dash_layout ==
    [dataset |-> Nothing, state |-> state_reset, choice |-> NONE, fired |-> "layout",
     request |-> Nothing, prev_state |-> state_reset]

\* the callback on_load for the posted values drawn from the given sets;
\* render_question then rebuilds the radio with value=None
on_load_call(engines, sections, lengths, seeds) ==
    /\ dash # Nothing
    /\ \E engine \in engines, section_value \in sections, p7_length \in lengths,
          seed \in seeds :
         \E llm \in IF engine = "openai" /\ ~seed_val(seed).raised
                     THEN llm_outcomes[section_part(section_value), p7_length, today]
                     ELSE {Nothing},
            rng \in IF engine = "openai" \/ seed_val(seed).raised THEN {0}
                    ELSE Random(seed_val(seed).val) :
           dash' = Some([dataset |-> Some([questions |->
                                     on_load_questions(engine, section_value, seed_val(seed),
                                                       p7_length, llm, rng, today)]),
                         state |-> state_reset,
                         choice |-> NONE,
                         fired |-> "on_load",
                         request |-> Some([engine |-> engine, section_value |-> section_value,
                                           seed |-> seed, p7_length |-> p7_length,
                                           llm_raised |-> engine = "openai" /\ llm = Nothing
                                                          /\ ~seed_val(seed).raised]),
                         prev_state |-> dash[1].state])
    /\ UNCHANGED <<args, today, results, lo_args, lo_ret, heap, f_arg, f_ret, st, lex_call, p5_seen, imp, cli, p7_seen, hints>>

\* "Load One Question" clicked in the page
on_load == on_load_call(UiEngines, DashSections, UiLengths, UiSeeds)

\* a request to the callback that the page's controls do not produce
on_load_posted == on_load_call(UiEngines, PostedSections, PostedLengths, PostedSeeds)

\* the user picks one of the radio's options
dash_select ==
    /\ dash # Nothing
    /\ dash[1].dataset # Nothing
    /\ \E k \in 1..Len(dash[1].dataset[1].questions[dash[1].state.index + 1].options) :
         dash' = Some([dash[1] EXCEPT
                         !.choice = radio_letters(dash[1].dataset[1].questions[
                                                     dash[1].state.index + 1])[k],
                         !.fired = "choice",
                         !.prev_state = dash[1].state])
    /\ UNCHANGED <<args, today, results, lo_args, lo_ret, heap, f_arg, f_ret, st, lex_call, p5_seen, imp, cli, p7_seen, hints>>

\* "Submit"; a state-store update re-renders the question (radio value=None)
on_submit ==
    /\ dash # Nothing
    /\ LET new == on_submit_state(dash[1].dataset, dash[1].state, dash[1].choice)
       IN dash' = IF new = Nothing
                  THEN Some([dash[1] EXCEPT !.fired = "on_submit",
                                            !.prev_state = dash[1].state])
                  ELSE Some([dash[1] EXCEPT !.state = new[1], !.choice = NONE,
                                            !.fired = "on_submit",
                                            !.prev_state = dash[1].state])
    /\ UNCHANGED <<args, today, results, lo_args, lo_ret, heap, f_arg, f_ret, st, lex_call, p5_seen, imp, cli, p7_seen, hints>>

on_restart_unchanged ==
    /\ dash # Nothing
    /\ dash' = Some([dash[1] EXCEPT !.fired = "on_restart", !.prev_state = dash[1].state])
    /\ UNCHANGED <<args, today, results, lo_args, lo_ret, heap, f_arg, f_ret, st, lex_call, p5_seen, imp, cli, p7_seen, hints>>

\* "Restart"
on_restart ==
    /\ dash # Nothing
    /\ dash' = IF dash[1].dataset = Nothing \/ Len(dash[1].dataset[1].questions) = 0
               THEN Some([dash[1] EXCEPT !.fired = "on_restart",
                                         !.prev_state = dash[1].state])
               ELSE Some([dash[1] EXCEPT !.state = state_reset, !.choice = NONE,
                                         !.fired = "on_restart",
                                         !.prev_state = dash[1].state])
    /\ UNCHANGED <<args, today, results, lo_args, lo_ret, heap, f_arg, f_ret, st, lex_call, p5_seen, imp, cli, p7_seen, hints>>

-----------------------------------------------------------------------------
(* Streamlit (streamlit_app.py).  Every event is one run of the script,    *)
(* top to bottom; st[1] holds st.session_state (dataset, state, history,   *)
(* the radio's key "choice"), HAS_LLM, the question the last run drew on    *)
(* screen and the button that started it.                                  *)

\* the record appended to st.session_state.history for a question
history_item(q, timestamp) ==
    [timestamp |-> timestamp,
     part |-> q.q_part,
     partName |-> q.q_part_name,
     stem |-> derive_stem(q),
     options |-> [k \in 1..Len(q.options) |->
                     [letter |-> radio_letters(q)[k],
                      text |-> strip_option_label(q.options[k])]],
     answer |-> normalize_answer_letter(q.answer),
     explanationJa |-> q.explanationJa,
     context |-> IF "context" \in DOMAIN q THEN q.context ELSE <<>>,
     userAnswer |-> Nothing,
     correct |-> Nothing]

\* questions = collect_questions(filter_reading_only(data))[:1]
kept_questions(data) == first_only(collect_questions(reading_only(data)))

\* seed_opt = random.randint(1, 2**31 - 1): the fresh seed of a generation,
\* which no input of the page sets
StSeeds == {1}

\* the sidebar's values, the seed and the part drawn for a generation
StInputs ==
    {i \in [engine : UiEngines, section_value : UiSections, seed_opt : StSeeds,
            p7_length : UiLengths, difficulty : {"medium"}, genre : {NONE}, domain : {NONE},
            randomize_params : BOOLEAN, drawn_part : UiSections] :
        ~i.randomize_params => i.drawn_part = i.section_value}

\* _do_generate with the local engine, worked out once for each input
\* and date
do_generate_local ==
    [i \in StInputs, date \in {Days[k] : k \in 1..Len(Days)} |->
        generate_dataset(single_question_args(IF i.randomize_params THEN i.drawn_part
                                              ELSE i.section_value,
                                              Some(i.seed_opt), i.p7_length,
                                              i.difficulty, i.genre, i.domain),
                         rng_seed(i.seed_opt), date)]

\* the request of a run whose generation raised (the run shows the warning
\* "Failed to generate. Showing fallback"); Nothing for any other run
st_failed(i) ==
    Some([engine |-> i.engine, section_value |-> i.section_value,
          randomize_params |-> i.randomize_params])

\* st.session_state.history.append(item)
history_prepend(history, item) == <<item>> \o history
history_append(history, item) == Append(history, item)

\* the try/except of the load handler (and of the next handler, which
\* repeats it): s is the session, i the sidebar values and the values drawn
\* with random, llm the outcome of the LLM call
st_generate(s, i, llm, timestamp, date) ==
    LET section_num == IF i.section_value \in {5, 6, 7} THEN i.section_value ELSE 7
        part_num == IF i.randomize_params THEN i.drawn_part ELSE section_num
        raised == i.engine = "openai" /\ (~s.has_llm \/ llm = Nothing)
        data == IF i.engine = "openai" THEN llm[1]
                ELSE do_generate_local[i, date]
        questions == kept_questions(data)
        fb_q == collect_questions(fallback_dataset(part_num))
    IN IF raised
       THEN [s EXCEPT !.dataset = Some([questions |->
                                          collect_questions(fallback_dataset(section_num))]),
                      !.state = state_reset,
                      !.failed = st_failed(i)]
       ELSE IF Len(questions) = 0
       THEN [s EXCEPT !.dataset = Some([questions |-> fb_q]),
                      !.history = history_append(s.history, history_item(fb_q[1], timestamp)),
                      !.state = state_reset,
                      !.failed = Nothing]
       ELSE [s EXCEPT !.dataset = Some([questions |-> questions]),
                      !.history = history_append(s.history, history_item(questions[1], timestamp)),
                      !.state = state_reset,
                      !.failed = Nothing]

\* the question the render block draws: questions[idx], idx clamped
st_question(s) ==
    LET questions == s.dataset[1].questions
        idx == Max({0, IF s.state.index < Len(questions) - 1 THEN s.state.index
                       ELSE Len(questions) - 1})
    IN questions[idx + 1]

\* st.radio(..., key="choice"): the stored letter when it is one of the
\* options, the first option otherwise
st_radio(s, letters) ==
    IF \E k \in 1..Len(letters) : letters[k] = s.choice THEN s.choice ELSE letters[1]

\* the render block: the question drawn and the radio's value
st_render(s) ==
    IF s.dataset = Nothing \/ Len(s.dataset[1].questions) = 0
    THEN [s EXCEPT !.shown = Nothing]
    ELSE [s EXCEPT !.shown = Some(st_question(s)),
                   !.choice = st_radio(s, radio_letters(st_question(s)))]

\* the submit handler, run after the render block of the same run; r.state
\* is the state the render block read
st_submit_handler(r) ==
    IF state_answered(r.state) \/ r.choice = NONE THEN r
    ELSE LET q == st_question(r)
             letter == r.choice
             correct_letter == IF normalize_answer_letter(q.answer) = NONE THEN ""
                               ELSE normalize_answer_letter(q.answer)
             is_correct == letter = correct_letter
             graded == [r EXCEPT !.state = [index |-> r.state.index,
                                            score |-> r.state.score + (IF is_correct THEN 1 ELSE 0),
                                            answered |-> TRUE]]
         IN st_render(IF Len(r.history) = 0 THEN graded
                      ELSE [graded EXCEPT !.history[Len(r.history)].userAnswer = Some(letter),
                                          !.history[Len(r.history)].correct = Some(is_correct)])

\* the single-question dataset rebuilt from a history record
st_history_question(h) ==
    [q_part |-> h.part,
     q_part_name |-> h.partName,
     stem |-> h.stem,
     options |-> [k \in 1..Len(h.options) |-> <<h.options[k].letter>> \o h.options[k].text],
     answer |-> h.answer,
     explanationJa |-> h.explanationJa,
     context |-> h.context]

\* the session after the initialisation block of the first run
st_session(has_llm) ==
    [has_llm |-> has_llm, dataset |-> Nothing, state |-> state_reset, history |-> <<>>,
     choice |-> NONE, shown |-> Nothing, clicked |-> "open", failed |-> Nothing]

\* datetime.now().isoformat(timespec="seconds"), to the day
st_now(date) == date

\* "Load One Question": the load handler, then the render block
st_load_call(inputs, limit) ==
    /\ st # Nothing
    /\ Len(st[1].history) < limit
    /\ \E i \in inputs :
         \E llm \in IF i.engine = "openai"
                     THEN llm_outcomes[IF i.randomize_params THEN i.drawn_part
                                       ELSE i.section_value, i.p7_length, today]
                     ELSE {Nothing} :
           st' = Some([st_render(st_generate(st[1], i, llm, st_now(today), today))
                       EXCEPT !.clicked = "load"])
    /\ UNCHANGED <<args, today, results, lo_args, lo_ret, heap, f_arg, f_ret, dash, lex_call, p5_seen, imp, cli, p7_seen, hints>>

st_load == st_load_call(StInputs, MaxHistory)

\* the user picks one of the options of the radio on screen
st_select ==
    /\ st # Nothing
    /\ st[1].shown # Nothing
    /\ \E k \in 1..Len(st[1].shown[1].options) :
         st' = Some([st_render([st[1] EXCEPT !.choice = radio_letters(st[1].shown[1])[k]])
                     EXCEPT !.clicked = "choice", !.failed = Nothing])
    /\ UNCHANGED <<args, today, results, lo_args, lo_ret, heap, f_arg, f_ret, dash, lex_call, p5_seen, imp, cli, p7_seen, hints>>

\* "Submit": the render block, then the submit handler and its rerun
st_submit ==
    /\ st # Nothing
    /\ st[1].shown # Nothing
    /\ st' = Some([st_submit_handler(st_render(st[1])) EXCEPT !.clicked = "submit", !.failed = Nothing])
    /\ UNCHANGED <<args, today, results, lo_args, lo_ret, heap, f_arg, f_ret, dash, lex_call, p5_seen, imp, cli, p7_seen, hints>>

\* "Restart": the state is reset, the radio's key deleted, the script rerun
st_restart ==
    /\ st # Nothing
    /\ st[1].shown # Nothing
    /\ st' = Some([st_render([st_render(st[1]) EXCEPT !.state = state_reset, !.choice = NONE])
                   EXCEPT !.clicked = "restart", !.failed = Nothing])
    /\ UNCHANGED <<args, today, results, lo_args, lo_ret, heap, f_arg, f_ret, dash, lex_call, p5_seen, imp, cli, p7_seen, hints>>

\* "Next": the render block draws the current question, then the handler
\* generates a new one; the script is not rerun
st_next_call(inputs, limit) ==
    /\ st # Nothing
    /\ st[1].shown # Nothing
    /\ Len(st[1].history) < limit
    /\ \E i \in inputs :
         \E llm \in IF i.engine = "openai"
                     THEN llm_outcomes[IF i.randomize_params THEN i.drawn_part
                                       ELSE i.section_value, i.p7_length, today]
                     ELSE {Nothing} :
           st' = Some([st_generate(st_render(st[1]), i, llm, st_now(today), today)
                       EXCEPT !.clicked = "next"])
    /\ UNCHANGED <<args, today, results, lo_args, lo_ret, heap, f_arg, f_ret, dash, lex_call, p5_seen, imp, cli, p7_seen, hints>>

st_next == st_next_call(StInputs, MaxHistory)

\* "Clear History"
st_clear_history ==
    /\ st # Nothing
    /\ st[1].shown # Nothing
    /\ st' = Some([st_render(st[1]) EXCEPT !.history = <<>>, !.clicked = "clear_history",
                                           !.failed = Nothing])
    /\ UNCHANGED <<args, today, results, lo_args, lo_ret, heap, f_arg, f_ret, dash, lex_call, p5_seen, imp, cli, p7_seen, hints>>

\* "Load selected into quiz"
st_load_selected ==
    /\ st # Nothing
    /\ st[1].shown # Nothing
    /\ \E idx_sel \in 1..Len(st[1].history) :
         st' = Some([st_render(st[1]) EXCEPT
                       !.dataset = Some([questions |->
                                          <<st_history_question(st[1].history[idx_sel])>>]),
                       !.state = state_reset,
                       !.clicked = "load_selected",
                       !.failed = Nothing])
    /\ UNCHANGED <<args, today, results, lo_args, lo_ret, heap, f_arg, f_ret, dash, lex_call, p5_seen, imp, cli, p7_seen, hints>>

-----------------------------------------------------------------------------
(* One browser session of either front-end.                                *)

\* on_load called on its own, over everything a client can post
InitLoad ==
    /\ dash = Some(dash_layout)
    /\ st = Nothing
    /\ GenIdle
    /\ LabelIdle
    /\ FilterIdle
    /\ LexIdle
    /\ P5Idle
    /\ P7Idle
    /\ HintsIdle
    /\ ImportIdle
    /\ CliIdle

NextLoad == on_load_posted

SpecLoad == InitLoad /\ [][NextLoad]_vars

InitUI ==
    /\ \/ dash = Some(dash_layout) /\ st = Nothing
       \/ dash = Nothing /\ st \in {Some(st_session(h)) : h \in BOOLEAN}
    /\ GenIdle
    /\ LabelIdle
    /\ FilterIdle
    /\ LexIdle
    /\ P5Idle
    /\ P7Idle
    /\ HintsIdle
    /\ ImportIdle
    /\ CliIdle

NextUI ==
    \/ on_load
    \/ dash_select
    \/ on_submit
    \/ on_restart
    \/ st_load
    \/ st_select
    \/ st_submit
    \/ st_restart
    \/ st_next
    \/ st_clear_history
    \/ st_load_selected

SpecUI == InitUI /\ [][NextUI]_vars


\* ---------------------------------------------------------------------
\* History import (src/streamlit_app.py)
\* ---------------------------------------------------------------------

\* the longest history file, in lines
MaxLines == 2

\* history items, by the fields the import looks at; item_b has the key of
\* item_a and another answer, item_c has no timestamp
item_a == [timestamp |-> "2025-11-01T09:00:00", stem |-> "Why will the cafe close early?", part |-> 7, answer |-> "A"]
item_b == [timestamp |-> "2025-11-01T09:00:00", stem |-> "Why will the cafe close early?", part |-> 7, answer |-> "B"]
item_c == [stem |-> "Why will the cafe close early?", part |-> 7, answer |-> "A"]

\* it.get(name, "")
item_get(it, name) == IF name \in DOMAIN it THEN it[name] ELSE ""

\* (it.get("timestamp", ""), it.get("stem", ""), it.get("part", ""))
item_key(it) ==
    <<item_get(it, "timestamp"), item_get(it, "stem"),
      IF "part" \in DOMAIN it THEN form_int(it.part) ELSE form_text(<<>>)>>

\* seen.add(key)
seen_after_stale(seen, key) == seen
seen_after(seen, key) == seen \cup {key}

\* the loop of _merge_history over the items
RECURSIVE merge_loop(_, _, _)
merge_loop(history, seen, items) ==
    IF items = <<>> THEN history
    ELSE IF item_key(Head(items)) \notin seen
    THEN merge_loop(Append(history, Head(items)), seen_after(seen, item_key(Head(items))),
                    Tail(items))
    ELSE merge_loop(history, seen, Tail(items))

merge_history(history, items) ==
    merge_loop(history, {item_key(history[k]) : k \in 1..Len(history)}, items)

\* a line of a JSONL file: blank, not JSON, a JSON value that is no object,
\* or an object
jsonl_blank == [kind |-> "blank", obj |-> Nothing]
jsonl_text == [kind |-> "text", obj |-> Nothing]
jsonl_list == [kind |-> "list", obj |-> Nothing]
jsonl_dict(it) == [kind |-> "dict", obj |-> Some(it)]

JsonlLines == {jsonl_blank, jsonl_text, jsonl_list} \cup {jsonl_dict(it) : it \in {item_a, item_b, item_c}}

\* the loop over the lines of a JSONL file: a blank line, a line json.loads
\* raises on and a value that is no dict add nothing
RECURSIVE jsonl_items(_)
jsonl_items(lines) ==
    IF lines = <<>> THEN <<>>
    ELSE IF Head(lines).kind = "dict"
    THEN <<Head(lines).obj[1]>> \o jsonl_items(Tail(lines))
    ELSE jsonl_items(Tail(lines))

\* a line of a CSV file: the header row of _autosave_item, or a data row
\* with its part cell
csv_header == [kind |-> "header", timestamp |-> "", stem |-> "", part |-> <<>>, answer |-> ""]
csv_row(part) == [kind |-> "row", timestamp |-> "2025-11-01T09:00:00", stem |-> "Why will the cafe close early?", part |-> part, answer |-> "A"]

CsvLines == {csv_header} \cup {csv_row(part) : part \in {<<"7">>, <<>>, <<"x">>}}

\* _parse_history_csv_row; Nothing when it raises. A first row that is no
\* header names no column, so every get() gives its default; a header row
\* among the data rows has the cell "part" in the part column
parse_history_csv_row(header, row) ==
    IF header.kind # "header"
    THEN Some([timestamp |-> "", stem |-> "", part |-> 0, answer |-> ""])
    ELSE IF row.kind = "header" THEN Nothing
    ELSE IF row.part = <<>>
    THEN Some([timestamp |-> row.timestamp, stem |-> row.stem, part |-> 0, answer |-> row.answer])
    ELSE IF py_int(form_text(row.part)) = Nothing THEN Nothing
    ELSE Some([timestamp |-> row.timestamp, stem |-> row.stem,
               part |-> py_int(form_text(row.part))[1], answer |-> row.answer])

RECURSIVE csv_rows(_, _)
csv_rows(header, rows) ==
    IF rows = <<>> THEN <<>>
    ELSE parse_history_csv_row(header, Head(rows)) \o csv_rows(header, Tail(rows))

\* header = next(reader, None); if header: for row in reader: ...
csv_items(lines) ==
    IF lines = <<>> THEN <<>> ELSE csv_rows(Head(lines), Tail(lines))

\* the items the loops of _import_history_file and of the uploader collect
collected_items(suffix, lines) ==
    IF suffix = ".jsonl" THEN jsonl_items(lines)
    ELSE IF suffix = ".csv" THEN csv_items(lines)
    ELSE <<>>

\* _import_history_file: Some(items) is a returned list. Only the branch of
\* a missing path has a return statement; after the loops the function ends
\* without one and the call gives None (Nothing)
import_history_file(path) ==
    LET items == collected_items(path.suffix, path.lines)
    IN IF ~path.exists THEN Some(<<>>) ELSE Nothing

\* if items:
truthy(items) == items # Nothing /\ items[1] # <<>>

LinesOf(kinds) == UNION {[1..n -> kinds] : n \in 0..MaxLines}

\* the history file of the import date, if there is one
ImportFiles ==
    {[suffix |-> ".jsonl", lines |-> l] : l \in LinesOf(JsonlLines)}
        \cup {[suffix |-> ".csv", lines |-> l] : l \in LinesOf(CsvLines)}

\* history-DATE.jsonl if it exists, else history-DATE.csv
import_path(file) ==
    IF file = Nothing THEN [exists |-> FALSE, suffix |-> ".csv", lines |-> <<>>]
    ELSE [exists |-> TRUE, suffix |-> file[1].suffix, lines |-> file[1].lines]

import_call(handler, history, items, merged) ==
    Some([handler |-> handler, prev_history |-> history, items |-> items, merged |-> merged])

InitImport ==
    /\ imp \in {Some([history |-> h, history_loaded_once |-> FALSE, file |-> f, call |-> Nothing]) :
                h \in {<<>>, <<item_a>>, <<item_c, item_b>>},
                f \in {Nothing} \cup {Some(x) : x \in ImportFiles}}
    /\ GenIdle
    /\ LabelIdle
    /\ FilterIdle
    /\ UiIdle
    /\ LexIdle
    /\ P5Idle
    /\ P7Idle
    /\ HintsIdle
    /\ CliIdle

\* _maybe_import_on_startup
maybe_import_on_startup ==
    /\ imp # Nothing
    /\ \E enabled \in BOOLEAN :
        LET s == imp[1]
            items == import_history_file(import_path(s.file))
        IN IF ~enabled \/ s.history_loaded_once
           THEN imp' = Some([s EXCEPT !.call = import_call("startup_off", s.history, Some(<<>>), FALSE)])
           ELSE IF truthy(items)
           THEN imp' = Some([s EXCEPT !.history = merge_history(@, items[1]),
                                      !.history_loaded_once = TRUE,
                                      !.call = import_call("startup", s.history, items, TRUE)])
           ELSE imp' = Some([s EXCEPT !.call = import_call("startup", s.history, items, FALSE)])
    /\ UNCHANGED <<args, today, results, lo_args, lo_ret, heap, f_arg, f_ret, dash, st, lex_call, p5_seen, cli, p7_seen, hints>>

\* the Import now button
import_now ==
    /\ imp # Nothing
    /\ LET s == imp[1]
           items == import_history_file(import_path(s.file))
       IN IF truthy(items)
          THEN imp' = Some([s EXCEPT !.history = merge_history(@, items[1]),
                                     !.call = import_call("import_now", s.history, items, TRUE)])
          ELSE imp' = Some([s EXCEPT !.call = import_call("import_now", s.history, items, FALSE)])
    /\ UNCHANGED <<args, today, results, lo_args, lo_ret, heap, f_arg, f_ret, dash, st, lex_call, p5_seen, cli, p7_seen, hints>>

\* the file uploader, given the same file
upload_file ==
    /\ imp # Nothing
    /\ imp[1].file # Nothing
    /\ LET s == imp[1]
           items == Some(collected_items(s.file[1].suffix, s.file[1].lines))
       IN IF truthy(items)
          THEN imp' = Some([s EXCEPT !.history = merge_history(@, items[1]),
                                     !.call = import_call("upload", s.history, items, TRUE)])
          ELSE imp' = Some([s EXCEPT !.call = import_call("upload", s.history, items, FALSE)])
    /\ UNCHANGED <<args, today, results, lo_args, lo_ret, heap, f_arg, f_ret, dash, st, lex_call, p5_seen, cli, p7_seen, hints>>

NextImport == maybe_import_on_startup \/ import_now \/ upload_file

SpecImport == InitImport /\ [][NextImport]_vars

\* ---------------------------------------------------------------------
\* The session history over a run (src/streamlit_app.py)
\* ---------------------------------------------------------------------

\* the most questions generated in a run
MaxRun == 2

\* the local engine, each section, nothing randomized
RunInputs == {i \in StInputs : i.engine = "local" /\ ~i.randomize_params}

st_load_run == st_load_call(RunInputs, MaxRun)

st_next_run == st_next_call(RunInputs, MaxRun)

\* a run of the page, or the imports of a run
InitHistory ==
    /\ \/ st = Some(st_session(FALSE)) /\ ImportIdle
       \/ st = Nothing /\ InitImport
    /\ dash = Nothing
    /\ GenIdle
    /\ LabelIdle
    /\ FilterIdle
    /\ LexIdle
    /\ P5Idle
    /\ P7Idle
    /\ HintsIdle
    /\ CliIdle

NextHistory ==
    \/ st_load_run
    \/ st_select
    \/ st_submit
    \/ st_restart
    \/ st_next_run
    \/ st_clear_history
    \/ st_load_selected
    \/ maybe_import_on_startup
    \/ import_now
    \/ upload_file

SpecHistory == InitHistory /\ [][NextHistory]_vars

\* ---------------------------------------------------------------------
\* The command-line interactive quiz (src/main.py)
\* ---------------------------------------------------------------------

\* the most questions handed to the quiz
MaxQuiz == 2

\* str.upper(), character by character
upper_char(c) ==
    IF \E u \in DOMAIN LowerCase : LowerCase[u] = c
    THEN CHOOSE u \in DOMAIN LowerCase : LowerCase[u] = c
    ELSE c

str_upper(chars) == [k \in 1..Len(chars) |-> upper_char(chars[k])]

Whitespace == {" ", "\t"}

\* str.strip()
RECURSIVE lstrip(_)
lstrip(chars) ==
    IF chars # <<>> /\ Head(chars) \in Whitespace THEN lstrip(Tail(chars)) ELSE chars

RECURSIVE rstrip(_)
rstrip(chars) ==
    IF chars # <<>> /\ chars[Len(chars)] \in Whitespace
    THEN rstrip(SubSeq(chars, 1, Len(chars) - 1))
    ELSE chars

str_strip(chars) == rstrip(lstrip(chars))

\* [chr(ord('A') + i) for i in range(len(options))]
valid_letters_abcd(options) == {chr_A(i) : i \in 0..3}
valid_letters(options) == {chr_A(i) : i \in 0..(Len(options) - 1)}

\* raw in valid_letters: raw is one of the listed one-letter strings
raw_in(raw, letters) == Len(raw) = 1 /\ raw[1] \in letters

\* min(limit, len(questions)) if limit > 0 else len(questions)
quiz_total(questions, limit) ==
    IF limit > 0 THEN (IF limit < Len(questions) THEN limit ELSE Len(questions))
    ELSE Len(questions)

\* questions of four options and of two, by what the quiz reads of them
QuizQuestions ==
    {[options |-> <<<<"A", ".", "submit">>, <<"B", ".", "repair">>,
                    <<"C", ".", "cancel">>, <<"D", ".", "extend">>>>, answer |-> a] :
        a \in {"A", "C"}}
        \cup {[options |-> <<<<"A", ".", "arrive">>, <<"B", ".", "arriving">>>>, answer |-> "B"]}

\* what the user types at the prompt, character by character
QuizTyped ==
    {<<"a">>, <<"B">>, <<" ", "c", "\t">>, <<"D">>, <<"e">>, <<>>, <<" ">>, <<"A", "B">>,
     <<"1">>, <<"A", ".">>}

\* interactive_quiz(questions, limit) at its first prompt (or at its end,
\* without questions)
InitQuiz ==
    /\ cli \in {Some([questions |-> qs, total |-> quiz_total(qs, limit), done |-> 0,
                      score |-> 0, raised |-> FALSE, last |-> Nothing]) :
                qs \in UNION {[1..n -> QuizQuestions] : n \in 0..MaxQuiz},
                limit \in 0..(MaxQuiz + 1)}
    /\ GenIdle
    /\ LabelIdle
    /\ FilterIdle
    /\ UiIdle
    /\ LexIdle
    /\ P5Idle
    /\ P7Idle
    /\ HintsIdle
    /\ ImportIdle

\* one turn of the while loop: a line is read; a valid letter ends the loop
\* and the question is graded, anything else prints the notice and prompts
\* again
quiz_input ==
    /\ cli # Nothing
    /\ ~cli[1].raised
    /\ cli[1].done < cli[1].total
    /\ \E typed \in QuizTyped :
        LET s == cli[1]
            q == s.questions[s.done + 1]
            raw == str_upper(str_strip(typed))
            accepted == raw_in(raw, valid_letters(q.options))
            is_correct == accepted /\ raw[1] = q.answer
            last == Some([typed |-> typed, raw |-> raw, question |-> s.done + 1,
                          accepted |-> accepted, score |-> s.score])
        IN IF accepted
           THEN cli' = Some([s EXCEPT !.done = @ + 1,
                                      !.score = IF is_correct THEN @ + 1 ELSE @,
                                      !.last = last])
           ELSE cli' = Some([s EXCEPT !.last = last])
    /\ UNCHANGED <<args, today, results, lo_args, lo_ret, heap, f_arg, f_ret, dash, st, lex_call, p5_seen, imp, p7_seen, hints>>

\* the input stream ends at the prompt: input() raises EOFError, which
\* nothing catches
quiz_eof ==
    /\ cli # Nothing
    /\ ~cli[1].raised
    /\ cli[1].done < cli[1].total
    /\ cli' = Some([cli[1] EXCEPT !.raised = TRUE, !.last = Nothing])
    /\ UNCHANGED <<args, today, results, lo_args, lo_ret, heap, f_arg, f_ret, dash, st, lex_call, p5_seen, imp, p7_seen, hints>>

NextQuiz == quiz_input \/ quiz_eof

SpecQuiz == InitQuiz /\ [][NextQuiz]_vars

\* ---------------------------------------------------------------------
\* Part 7 harness: gen_part7 called with one seed after another
\* ---------------------------------------------------------------------

MaxSeedP7S == 60

\* genre hints: none, one whose label no bank passage opens with
\* ("newsletter"), two that gen_part7 does not know, and one that filters
P7Genres == {NONE, "newsletter", "manual", "survey", "notice"}

P7Calls ==
    {[length |-> "short", genre |-> g] : g \in P7Genres}
        \cup {[length |-> l, genre |-> NONE] : l \in {"medium", "long"}}

InitP7 ==
    /\ p7_seen \in {Some([length |-> c.length, genre |-> c.genre, seed |-> 0,
                          seen |-> {}, last |-> <<>>, plain |-> <<>>]) : c \in P7Calls}
    /\ GenIdle
    /\ LabelIdle
    /\ FilterIdle
    /\ UiIdle
    /\ LexIdle
    /\ P5Idle
    /\ HintsIdle
    /\ ImportIdle
    /\ CliIdle

\* gen_part7 with the next seed: last is what it returned, plain what it
\* returns without a genre hint, seen the short passages returned so far
GenPart7 ==
    /\ p7_seen # Nothing
    /\ p7_seen[1].seed <= MaxSeedP7S
    /\ LET s == p7_seen[1]
           qs == gen_part7(MaxPerPart, rng_seed(s.seed), s.length, NONE, s.genre,
                           NONE).block.questions
           plain == gen_part7(MaxPerPart, rng_seed(s.seed), s.length, NONE, NONE,
                              NONE).block.questions
       IN p7_seen' = Some([s EXCEPT
                             !.seed = @ + 1,
                             !.seen = IF s.length = "short"
                                      THEN @ \cup {qs[k].context.passage : k \in 1..Len(qs)}
                                      ELSE @,
                             !.last = qs,
                             !.plain = plain])
    /\ UNCHANGED <<args, today, results, lo_args, lo_ret, heap, f_arg, f_ret, dash, st, lex_call, p5_seen, imp, cli, hints>>

NextP7 == GenPart7

SpecP7 == InitP7 /\ [][NextP7]_vars

\* ---------------------------------------------------------------------
\* Hints harness: generate_dataset for one part, the same seed, count and
\* domain, under every value of the hints
\* ---------------------------------------------------------------------

MaxSeedHints == 12

\* values a difficulty or a genre hint can take: none, difficulty tags and
\* genre tags
HintValues == {NONE, "easy", "hard", "notice", "faq"}

\* the part asked for, and the arguments held fixed with it
HintCalls ==
    {[part |-> 5, p7_length |-> NONE, held |-> d, domain |-> dom] :
        d \in {NONE, "hard"}, dom \in {NONE, "IT"}}
    \cup {[part |-> 6, p7_length |-> NONE, held |-> NONE, domain |-> dom] :
             dom \in {NONE, "IT"}}
    \cup {[part |-> 7, p7_length |-> l, held |-> g, domain |-> dom] :
             l \in {"short", "medium"}, g \in {NONE, "notice"}, dom \in {NONE, "IT"}}

\* the hints that vary for a part: genre for Part 5 (difficulty held),
\* difficulty and genre for Part 6, difficulty for Part 7 (genre held)
hint_pairs(c) ==
    IF c.part = 5 THEN {[difficulty |-> c.held, genre |-> g] : g \in HintValues}
    ELSE IF c.part = 6 THEN [difficulty : HintValues, genre : HintValues]
    ELSE {[difficulty |-> d, genre |-> c.held] : d \in HintValues}

\* the blocks generate_dataset returns for the call under each hint pair
hinted_blocks(c, seed, date) ==
    {generate_dataset([title |-> DefaultTitle, seed |-> Some(seed), parts |-> Some(<<c.part>>),
                       per_part |-> MaxPerPart, p7_length |-> c.p7_length,
                       difficulty |-> h.difficulty, genre |-> h.genre,
                       domain |-> c.domain],
                      rng_seed(seed), date).parts : h \in hint_pairs(c)}

InitHints ==
    /\ hints \in {Some([call |-> c, seed |-> 0, blocks |-> {}]) : c \in HintCalls}
    /\ GenIdle
    /\ LabelIdle
    /\ FilterIdle
    /\ UiIdle
    /\ LexIdle
    /\ P5Idle
    /\ P7Idle
    /\ ImportIdle
    /\ CliIdle

\* generate_dataset with the next seed, once per hint pair
GenerateHinted ==
    /\ hints # Nothing
    /\ hints[1].seed <= MaxSeedHints
    /\ hints' = Some([hints[1] EXCEPT
                        !.seed = @ + 1,
                        !.blocks = hinted_blocks(hints[1].call, hints[1].seed, today)])
    /\ UNCHANGED <<args, today, results, lo_args, lo_ret, heap, f_arg, f_ret, dash, st, lex_call, p5_seen, imp, cli, p7_seen>>

NextHints == GenerateHinted

SpecHints == InitHints /\ [][NextHints]_vars
-----------------------------------------------------------------------------
(* Properties.                                                             *)

\* the Datasets returned so far, by call number
Calls == 1..Len(results)

\* the (block, question) positions of Dataset d
QuestionsOf(d) ==
    UNION {{<<b, k>> : k \in 1..Len(d.parts[b].questions)} : b \in 1..Len(d.parts)}

QuestionAt(d, bk) == d.parts[bk[1]].questions[bk[2]]

\* a question built from the paragraph_multi archetype
IsMulti(q) == "context" \in DOMAIN q /\ "multiBlanks" \in DOMAIN q.context

\* the option lists a question carries: its own and, for paragraph_multi,
\* one per blank
OptionLists(q) ==
    <<q.options>> \o (IF IsMulti(q) THEN q.context.blankOptionsLabeled ELSE <<>>)

SeedGiven == args # Nothing /\ args[1].seed # Nothing

(* C1 as stated: for a given seed, two calls of generate_dataset with     *)
(* identical arguments return identical Datasets, every field included.    *)
C1_IdenticalDatasets ==
    SeedGiven => \A i, j \in Calls : results[i] = results[j]

(* C1: for a given seed, two calls of generate_dataset with identical      *)
(* arguments return the same parts (blocks, questions, stems, contexts     *)
(* with groupId, options order, answers, explanations); the whole Datasets *)
(* are identical when both calls are made on the same date (createdAt is   *)
(* the date of the call).                                                  *)
C1_Determinism ==
    SeedGiven =>
        \A i, j \in Calls :
            /\ results[i].parts = results[j].parts
            /\ results[i].createdAt = results[j].createdAt => results[i] = results[j]

\* two calls with a seed, on different dates, that produced a paragraph_multi
\* question and blocks for three parts
C1_Witness ==
    /\ SeedGiven
    /\ Len(results) = 2
    /\ results[1].createdAt # results[2].createdAt
    /\ Len(results[1].parts) = 3
    /\ \E bk \in QuestionsOf(results[1]) : IsMulti(QuestionAt(results[1], bk))

(* C2: in every Question of every Dataset generate_dataset returns, the    *)
(* option letters are A, B, ... in list order, one per option, and the     *)
(* answer letter is one of them.                                           *)
C2_LettersInOrder ==
    \A c \in Calls : \A bk \in QuestionsOf(results[c]) :
        LET q == QuestionAt(results[c], bk)
        IN /\ \A k \in 1..Len(q.options) : q.options[k][1] = Letters[k]
           /\ \E k \in 1..Len(q.options) : q.answer = Letters[k]

\* a Dataset of three blocks with a four-option question answered D and
\* another answered A
C2_Witness ==
    \E c \in Calls :
        /\ Len(results[c].parts) = 3
        /\ \E bk \in QuestionsOf(results[c]) :
             LET q == QuestionAt(results[c], bk)
             IN Len(q.options) = 4 /\ q.answer = "D"
        /\ \E bk \in QuestionsOf(results[c]) :
             LET q == QuestionAt(results[c], bk)
             IN Len(q.options) = 4 /\ q.answer = "A"

\* how many entries of sequence s equal x
Count(s, x) == Cardinality({k \in 1..Len(s) : s[k] = x})

\* labeled is options_plain permuted, each string its letter and its text
LabeledPermutation(options_plain, labeled) ==
    /\ Len(labeled) = Len(options_plain)
    /\ \A k \in 1..Len(labeled) : labeled[k][1] = Letters[k]
    /\ \A k \in 1..Len(options_plain) :
         Count([j \in 1..Len(labeled) |-> Tail(labeled[j])], options_plain[k])
             = Count(options_plain, options_plain[k])

(* C3: for an option list of length k in 2..4 and a correct index in       *)
(* 0..k-1, _label_options returns k strings whose texts are a permutation  *)
(* of the input, lettered A.. in output order, and the letter it returns   *)
(* labels the string whose text is the input option at the correct index.  *)
C3_LabelOptions ==
    (lo_ret # Nothing /\ Len(lo_args[1].options_plain) \in 2..4) =>
        LET a == lo_args[1]
            r == lo_ret[1]
        IN /\ LabeledPermutation(a.options_plain, r.labeled)
           /\ \E k \in 1..Len(r.labeled) :
                /\ r.answer = r.labeled[k][1]
                /\ Tail(r.labeled[k]) = a.options_plain[a.correct_index + 1]

\* three distinct options, the correct one moved from index 0 to letter C
C3_Witness ==
    /\ lo_ret # Nothing
    /\ Len(lo_args[1].options_plain) = 3
    /\ Cardinality({lo_args[1].options_plain[k] : k \in 1..3}) = 3
    /\ lo_args[1].correct_index = 0
    /\ lo_ret[1].answer = "C"
    /\ Len(lo_ret[1].labeled) = 3

\* the numbered blank markers
NumberedMarkers == {"[_____1]", "[_____2]", "[_____3]"}

(* C4: in every paragraph_multi question, blankCount is the number of      *)
(* numbered blank markers in context.text, and blankOptionsLabeled,        *)
(* blankAnswerLetters and blankNotes each have blankCount entries.         *)
C4_BlankCount ==
    \A c \in Calls : \A bk \in QuestionsOf(results[c]) :
        LET q == QuestionAt(results[c], bk)
        IN IsMulti(q) =>
            /\ q.context.blankCount
                 = Cardinality({k \in 1..Len(q.context.text) :
                                  q.context.text[k] \in NumberedMarkers})
            /\ Len(q.context.blankOptionsLabeled) = q.context.blankCount
            /\ Len(q.context.blankAnswerLetters) = q.context.blankCount
            /\ Len(q.context.blankNotes) = q.context.blankCount

\* a Dataset holding a two-blank and a three-blank paragraph_multi question
C4_Witness ==
    \E c \in Calls :
        /\ \E bk \in QuestionsOf(results[c]) :
             LET q == QuestionAt(results[c], bk)
             IN IsMulti(q) /\ q.context.blankCount = 2
        /\ \E bk \in QuestionsOf(results[c]) :
             LET q == QuestionAt(results[c], bk)
             IN IsMulti(q) /\ q.context.blankCount = 3

(* C5: a paragraph_multi question answers its first blank: blankIndex is   *)
(* 0 and the top-level options, answer and explanation are the first       *)
(* entries of blankOptionsLabeled, blankAnswerLetters and blankNotes.      *)
C5_FirstBlank ==
    \A c \in Calls : \A bk \in QuestionsOf(results[c]) :
        LET q == QuestionAt(results[c], bk)
        IN IsMulti(q) =>
            /\ q.context.blankIndex = 0
            /\ q.options = q.context.blankOptionsLabeled[1]
            /\ q.answer = q.context.blankAnswerLetters[1]
            /\ q.explanationJa = q.context.blankNotes[1]

\* a paragraph_multi question whose first blank is answered B while its
\* second blank is answered otherwise
C5_Witness ==
    \E c \in Calls : \E bk \in QuestionsOf(results[c]) :
        LET q == QuestionAt(results[c], bk)
        IN /\ IsMulti(q)
           /\ q.answer = "B"
           /\ q.context.blankAnswerLetters[2] # "B"

\* s is "<letter>. <text>"
HasLabel(s) == Len(s) >= 2 /\ \E k \in 1..Len(Letters) : s[1] = Letters[k]

(* C6: every option string of every generated question, and every entry   *)
(* of every blankOptionsLabeled list, is "<letter>. <text>" where the text *)
(* carries no letter label of its own.                                     *)
C6_SingleLabel ==
    \A c \in Calls : \A bk \in QuestionsOf(results[c]) :
        LET lists == OptionLists(QuestionAt(results[c], bk))
        IN \A l \in 1..Len(lists) : \A k \in 1..Len(lists[l]) :
              HasLabel(lists[l][k]) /\ ~HasLabel(Tail(lists[l][k]))

\* the block filter_reading_only's comprehension keeps
KeptBlock(h, b) == block_part(h, b) >= 5

RECURSIVE Kept(_, _)
\* the items of a list of blocks with part >= 5, in order
Kept(h, items) ==
    IF items = <<>> THEN <<>>
    ELSE (IF KeptBlock(h, Head(items)) THEN <<Head(items)>> ELSE <<>>) \o Kept(h, Tail(items))

(* C7: filter_reading_only(data) returns a new dict whose parts are the    *)
(* blocks of data with part >= 5 in their original order, and leaves every *)
(* object that existed before the call (the input dict, its parts list,    *)
(* the blocks) as it was.                                                  *)
C7_FilterFrame ==
    [][f_ret' # f_ret =>
          /\ \A id \in 1..Len(heap) : heap'[id] = heap[id]
          /\ f_ret' \notin 1..Len(heap)
          /\ heap'[f_ret'].parts # Nothing
          /\ heap'[f_ret'].parts[1] \notin 1..Len(heap)
          /\ get_parts(heap', f_ret') = Kept(heap, get_parts(heap, f_arg))]_vars

\* a call on three blocks that kept two of them in a new list
C7_Witness ==
    /\ f_ret # 0
    /\ f_ret # f_arg
    /\ Len(get_parts(heap, f_arg)) = 3
    /\ Len(get_parts(heap, f_ret)) = 2
    /\ heap[f_arg].parts # heap[f_ret].parts

\* the label prefix of each genre tag
GenrePrefix ==
    [g \in GenreTags |->
        CASE g = "faq" -> "FAQ:"
          [] g = "schedule" -> "Schedule:"
          [] g = "advertisement" -> "Ad:"
          [] g = "review" -> "Review:"
          [] g = "notice" -> "Notice:"
          [] g = "internal_notice" -> "Notice:"
          [] g = "policy" -> "Policy:"
          [] g = "press_release" -> "Press Release:"
          [] g = "invoice" -> "Invoice:"
          [] g = "menu" -> "Menu:"
          [] g = "event" -> "Event:"
          [] g = "weather" -> "Weather Alert:"
          [] g = "job_posting" -> "Job Posting:"
          [] g = "parking" -> "Parking Rates:"
          [] g = "social_post" -> "Post:"
          [] g = "interview" -> "Interview Schedule:"
          [] g = "newsletter" -> "Newsletter:"]

\* the short bank has a scenario under the genre's label
HasScenario(genre, domain) ==
    \E k \in 1..Len(p7_short_bank(domain)) :
        p7_short_bank(domain)[k].passage[1] = GenrePrefix[genre]

\* the call asks for short Part 7 passages
ShortPassages == args # Nothing /\ args[1].p7_length \in {NONE, "short"}

(* C8: Part 7 with short passages and a genre hint whose subset of the     *)
(* short bank is non-empty: every generated passage begins with that       *)
(* genre's label prefix.                                                   *)
C8_GenrePrefix ==
    (ShortPassages /\ args[1].genre \in GenreTags
                   /\ HasScenario(args[1].genre, args[1].domain)) =>
        \A c \in Calls : \A bk \in QuestionsOf(results[c]) :
            results[c].parts[bk[1]].part = 7 =>
                QuestionAt(results[c], bk).context.passage[1] = GenrePrefix[args[1].genre]

\* two press-release passages generated for the finance domain
C8_Witness ==
    /\ ShortPassages
    /\ args[1].genre = "press_release"
    /\ args[1].domain = "finance"
    /\ \E c \in Calls :
         /\ Len(results[c].parts) = 1
         /\ results[c].parts[1].part = 7
         /\ Len(results[c].parts[1].questions) = 2
         /\ \A k \in 1..2 :
              results[c].parts[1].questions[k].context.passage[1] = "Press Release:"

\* the part numbers of the blocks of Dataset d, in order
BlockParts(d) == [b \in 1..Len(d.parts) |-> d.parts[b].part]

RECURSIVE Supported(_)
\* the requested numbers that are 5, 6 or 7, in order
Supported(plist) ==
    IF plist = <<>> THEN <<>>
    ELSE (IF Head(plist) \in {5, 6, 7} THEN <<Head(plist)>> ELSE <<>>) \o Supported(Tail(plist))

(* C9: generate_dataset emits a block only for requested part numbers in   *)
(* {5,6,7}: with no part list the blocks are 5, 6, 7; with an explicit     *)
(* list, one block per requested 5, 6 or 7 and none for any other number,  *)
(* and the call returns a Dataset.                                         *)
C9_SupportedParts ==
    \A c \in Calls :
        /\ args[1].parts = Nothing => BlockParts(results[c]) = <<5, 6, 7>>
        /\ (args[1].parts # Nothing /\ args[1].parts[1] # <<>>) =>
               BlockParts(results[c]) = Supported(args[1].parts[1])

\* two calls asking for parts 0, 6 and 8 returned a Dataset with the block
\* for part 6 only
C9_Witness ==
    /\ args # Nothing
    /\ args[1].parts = Some(<<0, 6, 8>>)
    /\ args[1].per_part = 2
    /\ Len(results) = 2
    /\ BlockParts(results[2]) = <<6>>

\* the session state of the front-end that is running
UiState(d, s) == IF d # Nothing THEN d[1].state ELSE s[1].state

\* the running front-end's last event was a click on Submit
SubmitFired(d, s) ==
    IF d # Nothing THEN d[1].fired = "on_submit" ELSE s[1].clicked = "submit"

(* C10: in both front-ends, a Submit on a question that is already         *)
(* answered leaves the session state as it is, and the score grows only by *)
(* one, on a Submit that turns answered from false to true.                *)
C10_AnsweredGate ==
    [][/\ (UiState(dash, st).answered /\ SubmitFired(dash', st')) =>
              UiState(dash', st') = UiState(dash, st)
       /\ UiState(dash', st').score > UiState(dash, st).score =>
              /\ SubmitFired(dash', st')
              /\ ~UiState(dash, st).answered
              /\ UiState(dash', st').answered
              /\ UiState(dash', st').score = UiState(dash, st).score + 1]_vars

\* a second Submit on a question answered correctly: in Dash the radio was
\* picked again after grading; in Streamlit the radio shows a letter other
\* than the one that was graded
C10_Witness ==
    \/ /\ dash # Nothing
       /\ dash[1].fired = "on_submit"
       /\ dash[1].state.answered
       /\ dash[1].state.score = 1
       /\ dash[1].choice # NONE
    \/ /\ st # Nothing
       /\ st[1].clicked = "submit"
       /\ st[1].state.answered
       /\ st[1].state.score = 1
       /\ st[1].history # <<>>
       /\ st[1].history[Len(st[1].history)].userAnswer # Nothing
       /\ st[1].history[Len(st[1].history)].userAnswer # Some(st[1].choice)


-----------------------------------------------------------------------------
\* {"index": 0, "score": 0, "answered": False}, field by field
Zeroed(state) == state.index = 0 /\ state.score = 0 /\ state.answered = FALSE

\* a load of either front-end has just run
DashLoaded(d) == d # Nothing /\ d[1].fired = "on_load"
StLoaded(s) == s # Nothing /\ s[1].clicked \in {"load", "next", "load_selected"}

(* C11: every dataset load (generation succeeded, returned nothing or      *)
(* raised) and every explicit restart with a dataset loaded leaves the     *)
(* session state at index 0, score 0, answered false, whatever it was.     *)
C11_ResetOnLoad ==
    [][/\ DashLoaded(dash') => Zeroed(dash'[1].state)
       /\ (dash' # Nothing /\ dash'[1].fired = "on_restart" /\ dash[1].dataset # Nothing)
            => Zeroed(dash'[1].state)
       /\ StLoaded(st') => Zeroed(st'[1].state)
       /\ (st' # Nothing /\ st'[1].clicked = "restart") => Zeroed(st'[1].state)]_vars

\* a load or a restart that found a graded question with score 1
C11_Witness_DashLoad ==
    /\ DashLoaded(dash)
    /\ dash[1].prev_state.answered /\ dash[1].prev_state.score = 1
    /\ Zeroed(dash[1].state)
C11_Witness_DashRestart ==
    /\ dash # Nothing /\ dash[1].fired = "on_restart"
    /\ dash[1].prev_state.answered /\ dash[1].prev_state.score = 1
    /\ Zeroed(dash[1].state)
C11_Witness_St ==
    /\ st # Nothing /\ st[1].clicked = "restart"
    /\ st[1].history # <<>> /\ st[1].history[Len(st[1].history)].userAnswer # Nothing
    /\ Zeroed(st[1].state)
C11_Witness == C11_Witness_DashLoad \/ C11_Witness_DashRestart \/ C11_Witness_St

-----------------------------------------------------------------------------
\* the letters the options of a question carry, in order
OptionLetters(q) == [k \in 1..Len(q.options) |-> q.options[k][1]]

\* the canned single question for a part: one question, of that part, with
\* the fallback's id, four options A-D and answer A
CannedFor(questions, part) ==
    /\ Len(questions) = 1
    /\ questions[1].q_part = part
    /\ questions[1].id = <<(IF part = 5 THEN "FB-P5-Q"
                            ELSE IF part = 6 THEN "FB-P6-Q" ELSE "FB-P7-Q"), 1>>
    /\ OptionLetters(questions[1]) = <<"A", "B", "C", "D">>
    /\ \A k \in 1..4 : Len(questions[1].options[k]) = 2
    /\ questions[1].answer = "A"

C12_Witness_Dash ==
    /\ DashLoaded(dash)
    /\ dash[1].request[1].llm_raised
    /\ dash[1].request[1].section_value = form_int(6)
    /\ dash[1].dataset[1].questions[1].id = <<"FB-P6-Q", 1>>
C12_Witness_St ==
    /\ st # Nothing /\ st[1].clicked = "load" /\ st[1].has_llm
    /\ st[1].failed # Nothing
    /\ st[1].failed[1].engine = "openai"
    /\ st[1].failed[1].section_value = 6
    /\ st[1].dataset[1].questions[1].id = <<"FB-P6-Q", 1>>
C12_Witness_StRandomized == C12_Witness_St /\ st[1].failed[1].randomize_params
-----------------------------------------------------------------------------
(* C13: on_load always returns, and stores a dataset with exactly one      *)
(* question, for every engine, section value (outside 5-7 and None         *)
(* included), seed (None, empty and non-numeric included) and passage      *)
(* length, whether generation raises, yields no questions or succeeds.     *)
C13_AlwaysOneQuestion ==
    DashLoaded(dash) =>
        /\ dash[1].dataset # Nothing
        /\ Len(dash[1].dataset[1].questions) = 1
        /\ Zeroed(dash[1].state)

\* what the last request posted
Posted(field) == dash[1].request[1][field]

\* a non-numeric seed with no section: the Part 7 fallback is stored
C13_Witness ==
    /\ DashLoaded(dash)
    /\ Posted("seed") = form_text(<<"a">>)
    /\ Posted("section_value") = form_none
    /\ Posted("p7_length") = NONE
    /\ dash[1].dataset[1].questions[1].id = <<"FB-P7-Q", 1>>
\* section 4 with the local engine: a generated Part 7 question is stored
C13_Witness_Section4 ==
    /\ DashLoaded(dash)
    /\ Posted("section_value") = form_int(4)
    /\ Posted("engine") = "local"
    /\ Posted("seed") = form_text(<<"1">>)
    /\ dash[1].dataset[1].questions[1].id = <<"G-P7-Q", 1>>
\* the LLM returned without raising and the fallback is stored: it yielded
\* no questions
C13_Witness_NoQuestions ==
    /\ DashLoaded(dash)
    /\ Posted("engine") = "openai"
    /\ ~Posted("llm_raised")
    /\ Posted("seed") = form_none
    /\ Posted("section_value") = form_int(6)
    /\ dash[1].dataset[1].questions[1].id = <<"FB-P6-Q", 1>>
\* the LLM returned two questions and the first one is stored
C13_Witness_FirstOnly ==
    /\ DashLoaded(dash)
    /\ Posted("engine") = "openai"
    /\ Posted("section_value") = form_int(5)
    /\ dash[1].dataset[1].questions[1].id = <<"G-P5-Q", 1>>

-----------------------------------------------------------------------------
\* the bundle _domain_lex returned for the tag passed
Bundle == lex_call[1].bundle[1]
LexReturned == lex_call # Nothing /\ lex_call[1].bundle # Nothing
Declared == DOMAIN lex_table
LexFields == {"nouns", "depts", "companies", "ad_item"}

(* C14 as stated: for every tag the bundle has exactly the four fields,    *)
(* and for an absent tag or a tag that is not one of the 19 declared tags  *)
(* it is the default bundle.                                               *)
C14_UndeclaredIsDefault ==
    LexReturned =>
        /\ DOMAIN Bundle = LexFields
        /\ lex_call[1].domain \notin Declared => Bundle = lex_conf

(* C14, amended: for every tag the bundle has exactly the four fields; for *)
(* an absent tag or a tag whose lower-case form is not one of the 19       *)
(* declared tags it is the default bundle; a tag that is a declared tag in *)
(* any letter case gets that tag's bundle.                                 *)
C14_Total ==
    /\ Cardinality(Declared) = 19
    /\ LexReturned =>
        /\ DOMAIN Bundle = LexFields
        /\ lex_call[1].domain = NONE => Bundle = lex_conf
        /\ (lex_call[1].domain # NONE /\ lower(lex_call[1].domain) \notin Declared) => Bundle = lex_conf
        /\ (lex_call[1].domain # NONE /\ lower(lex_call[1].domain) \in Declared) =>
               Bundle = lex_table[lower(lex_call[1].domain)]

\* an unknown tag in mixed case resolved to the default bundle
C14_Witness ==
    /\ LexReturned
    /\ lex_call[1].domain = "Unknown"
    /\ Bundle.ad_item = "membership"
    /\ Len(Bundle.nouns) = 6

-----------------------------------------------------------------------------
\* the eight grammar-heavy archetypes, by the explanation that names them
Hard8 ==
    {"note.p5_verb_form", "note.p5_conjunction", "note.p5_subjunctive", "note.p5_passive",
     "note.p5_word_family", "note.p5_pronoun_agreement", "note.p5_comparative",
     "note.p5_preposition"}

P5Done == p5_seen # Nothing /\ p5_seen[1].seed > MaxSeedP5

(* C15: with difficulty 'hard' every Part 5 question comes from one of the *)
(* 8 grammar-heavy archetypes, and over the seeds each of the 8 is used at *)
(* every question position; with any other difficulty (easy, medium,       *)
(* absent, unrecognized) each of the 24 archetypes is used at every        *)
(* question position for some seed.                                        *)
C15_ArchetypePool ==
    p5_seen # Nothing =>
        /\ p5_seen[1].difficulty = "hard" =>
               /\ \A i \in 1..MaxPerPart : p5_seen[1].seen[i] \subseteq Hard8
               /\ \A i \in 1..Len(p5_seen[1].last) :
                      p5_archetype(p5_seen[1].last[i]) \in Hard8
        /\ P5Done =>
               \A i \in 1..MaxPerPart :
                   IF p5_seen[1].difficulty = "hard"
                   THEN p5_seen[1].seen[i] = Hard8
                   ELSE Cardinality(p5_seen[1].seen[i]) = 24

\* all 24 archetypes were used at every position with the unrecognized
\* difficulty 'HARD', among them one that is outside the hard pool
C15_Witness ==
    /\ P5Done
    /\ p5_seen[1].difficulty = "HARD"
    /\ \A i \in 1..MaxPerPart : Cardinality(p5_seen[1].seen[i]) = 24
    /\ "note.p5_articles" \in p5_seen[1].seen[MaxPerPart]

\* ---------------------------------------------------------------------
\* History import
\* ---------------------------------------------------------------------

HistoryKeys(history) == {item_key(history[k]) : k \in 1..Len(history)}

\* a call of a handler that reads the history file from the disk, the file
\* being there
DiskImported ==
    /\ imp # Nothing
    /\ imp[1].call # Nothing
    /\ imp[1].call[1].handler \in {"startup", "import_now"}
    /\ imp[1].file # Nothing

\* C16: importing a history file from the disk (on startup or with Import
\* now), _import_history_file returns the valid records of the file, the
\* malformed ones skipped, and each of them is in the session history
\* afterwards (merged, or already there under the same key).
C16_DiskImportReturnsValid ==
    DiskImported =>
        LET valid == collected_items(imp[1].file[1].suffix, imp[1].file[1].lines)
        IN /\ imp[1].call[1].items = Some(valid)
           /\ \A k \in 1..Len(valid) : item_key(valid[k]) \in HistoryKeys(imp[1].history)

\* a call that merged the items it read into the history
Merged == imp # Nothing /\ imp[1].call # Nothing /\ imp[1].call[1].merged

\* C17: _merge_history keeps the entries the history had, in their order,
\* and appends an imported item only if no entry before it (one the history
\* had, or one appended earlier in the same merge) has its (timestamp, stem,
\* part) key; every imported item's key is in the history afterwards, and
\* merging the same items once more changes nothing.
C17_MergeDedup ==
    Merged =>
        LET prev == imp[1].call[1].prev_history
            items == imp[1].call[1].items[1]
            history == imp[1].history
        IN /\ Len(prev) <= Len(history)
           /\ SubSeq(history, 1, Len(prev)) = prev
           /\ \A k \in (Len(prev) + 1)..Len(history) :
                /\ \E j \in 1..Len(items) : items[j] = history[k]
                /\ \A j \in 1..(k - 1) : item_key(history[j]) # item_key(history[k])
           /\ \A j \in 1..Len(items) : item_key(items[j]) \in HistoryKeys(history)
           /\ merge_history(history, items) = history

\* a file with two records of one key, merged into an empty history: the
\* first is appended, the second is not
C17_Witness ==
    /\ Merged
    /\ imp[1].call[1].items = Some(<<item_a, item_b>>)
    /\ imp[1].call[1].prev_history = <<>>
    /\ imp[1].history = <<item_a>>

\* ---------------------------------------------------------------------
\* The history over a run
\* ---------------------------------------------------------------------

\* a history entry without what Submit writes into it
Entry(h) ==
    IF "userAnswer" \in DOMAIN h THEN [h EXCEPT !.userAnswer = Nothing, !.correct = Nothing]
    ELSE h

\* every entry of the first history is in the second, at its place
KeptIn(before, after) ==
    /\ Len(before) <= Len(after)
    /\ \A k \in 1..Len(before) : Entry(after[k]) = Entry(before[k])

\* C18 as stated: whatever the event (load, next, submit, restart, import,
\* a history action), the entries the history had are still there, in
\* their places, so its length never decreases.
C18_AppendOnly ==
    [][/\ st # Nothing => KeptIn(st[1].history, st'[1].history)
       /\ imp # Nothing => KeptIn(imp[1].history, imp'[1].history)]_vars

\* C18: the history keeps its entries, in their places, over every event
\* but Clear History, which empties it.
C18_AppendOnlyUntilCleared ==
    [][/\ (st # Nothing /\ st'[1].clicked # "clear_history")
            => KeptIn(st[1].history, st'[1].history)
       /\ (st # Nothing /\ st'[1].clicked = "clear_history") => st'[1].history = <<>>
       /\ imp # Nothing => KeptIn(imp[1].history, imp'[1].history)]_vars

\* two different questions generated, the second one answered: both are in
\* the history, in the order they were generated
C18_Witness ==
    /\ st # Nothing
    /\ st[1].clicked = "submit"
    /\ Len(st[1].history) = 2
    /\ st[1].history[1].part = 5
    /\ st[1].history[2].part = 7
    /\ st[1].history[1].userAnswer = Nothing
    /\ st[1].history[2].userAnswer # Nothing

\* ---------------------------------------------------------------------
\* The command-line quiz
\* ---------------------------------------------------------------------

\* the letters of a question's options: A for the first, B for the second ...
QuizLetters(q) == {Letters[k] : k \in 1..Len(q.options)}

\* a line was typed at the prompt of a question
QuizTurn == cli # Nothing /\ cli'[1].last # Nothing /\ cli' # cli

\* the typed line, trimmed and upper-cased, is one of the current
\* question's option letters
QuizValid ==
    LET raw == cli'[1].last[1].raw
    IN Len(raw) = 1 /\ raw[1] \in QuizLetters(cli[1].questions[cli[1].done + 1])

\* C19: a typed line that, trimmed and upper-cased, is not one of the
\* current question's option letters changes neither the score nor the
\* current question and raises nothing; the quiz moves on (to grading, and
\* to the next question) only on a valid letter.
C19_Reprompt ==
    [][QuizTurn =>
         /\ ~QuizValid => /\ cli'[1].done = cli[1].done
                          /\ cli'[1].score = cli[1].score
                          /\ ~cli'[1].raised
         /\ QuizValid => cli'[1].done = cli[1].done + 1]_vars

\* the first question answered right; then "e" typed at the second, which
\* has four options: still at the second question, the score still 1
C19_Witness ==
    /\ cli # Nothing
    /\ cli[1].last # Nothing
    /\ cli[1].last[1].typed = <<"e">>
    /\ ~cli[1].last[1].accepted
    /\ cli[1].done = 1
    /\ cli[1].score = 1
    /\ Len(cli[1].questions[2].options) = 4

\* ---------------------------------------------------------------------
\* Two calls of the labeler on one generator
\* ---------------------------------------------------------------------

\* two calls made on a list of two to four options, no two alike
CalledTwice ==
    /\ Len(lo_ret) = 2
    /\ Len(lo_args[1].options_plain) \in 2..4
    /\ \A j, k \in 1..Len(lo_args[1].options_plain) :
         lo_args[1].options_plain[j] = lo_args[1].options_plain[k] => j = k

\* C20 as stated: two calls of _label_options on the same generator
\* instance, not reseeded in between, never give the same permutation of
\* the same option list.
C20_NeverSamePermutation ==
    CalledTwice => lo_ret[1].labeled # lo_ret[2].labeled

\* C20: two calls on the same generator instance consume its state in
\* sequence: each call leaves the generator in a state it was not in
\* before, and the second call gives what a call gives from the state the
\* first one left (its permutation may be the first call's again).
C20_SequentialCalls ==
    CalledTwice =>
        LET a == lo_args[1]
        IN /\ lo_ret[1].rng # a.rng
           /\ lo_ret[2].rng # lo_ret[1].rng
           /\ lo_ret[2].rng # a.rng
           /\ lo_ret[2] = label_options(a.options_plain, a.correct_index, lo_ret[1].rng)
           /\ lo_ret[1] = label_options(a.options_plain, a.correct_index, a.rng)

\* three different options, labeled twice in a row the same way
C20_Witness ==
    /\ CalledTwice
    /\ Len(lo_args[1].options_plain) = 3
    /\ lo_ret[1].labeled = lo_ret[2].labeled

\* ---------------------------------------------------------------------
\* Question counts and ids
\* ---------------------------------------------------------------------

\* the parts a call asks for: the list given, or 5, 6, 7 without one
Requested ==
    IF args[1].parts = Nothing \/ args[1].parts[1] = <<>> THEN <<5, 6, 7>> ELSE args[1].parts[1]

IdPrefix == 5 :> "G-P5-Q" @@ 6 :> "G-P6-Q" @@ 7 :> "G-P7-Q"

\* C21: the Dataset has one block per 5, 6 or 7 in the requested part
\* list, in the order of the list, and the block of part p holds exactly
\* per_part questions, whose ids are G-P<p>-Q1 ... G-P<p>-Q<per_part> in
\* order.
C21_CountAndIds ==
    \A c \in Calls :
        /\ BlockParts(results[c]) = Supported(Requested)
        /\ \A b \in 1..Len(results[c].parts) :
             LET block == results[c].parts[b]
             IN /\ Len(block.questions) = args[1].per_part
                /\ \A k \in 1..Len(block.questions) :
                     block.questions[k].id = <<IdPrefix[block.part], k>>

\* parts 7 and 5 asked for, two questions each: the block of part 7 first,
\* then the block of part 5, each with the ids Q1 and Q2
C21_Witness ==
    /\ args # Nothing
    /\ args[1].parts = Some(<<7, 5>>)
    /\ args[1].per_part = 2
    /\ Len(results) = 1
    /\ BlockParts(results[1]) = <<7, 5>>
    /\ results[1].parts[1].questions[2].id = <<"G-P7-Q", 2>>
    /\ results[1].parts[2].questions[2].id = <<"G-P5-Q", 2>>

\* ---------------------------------------------------------------------
\* Part 7 over the seeds
\* ---------------------------------------------------------------------

\* gen_part7 was called with every seed of the harness
P7Done == p7_seen # Nothing /\ p7_seen[1].seed > MaxSeedP7S

\* a short call whose genre hint selects no passage of the bank: the label
\* of "newsletter" opens none, "manual" and "survey" are no genres of
\* gen_part7
P7NoMatch ==
    /\ p7_seen # Nothing
    /\ p7_seen[1].length = "short"
    /\ p7_seen[1].genre \in {"newsletter", "manual", "survey"}

BankPassages == {p7_short_bank(NONE)[k].passage : k \in 1..Len(p7_short_bank(NONE))}

\* C22: with length "short" and a genre hint that selects no passage of
\* the bank, gen_part7 returns what it returns without a genre hint (it
\* draws from the full bank, and raises nothing), and over the seeds every
\* one of the 18 passages of the bank is returned.
C22_FullBankFallback ==
    P7NoMatch =>
        /\ p7_seen[1].last = p7_seen[1].plain
        /\ p7_seen[1].seen \subseteq BankPassages
        /\ P7Done => (p7_seen[1].seen = BankPassages /\ Cardinality(p7_seen[1].seen) = 18)

\* the genre hint "newsletter", every seed tried: questions were returned
\* and all the passages of the bank seen
C22_Witness ==
    /\ P7Done
    /\ p7_seen[1].genre = "newsletter"
    /\ p7_seen[1].length = "short"
    /\ Len(p7_seen[1].last) = MaxPerPart
    /\ Cardinality(p7_seen[1].seen) = 18

Elems(s) == {s[k] : k \in 1..Len(s)}

\* one subject, one action, one object and one purpose clause of the fixed
\* vocabularies, in that order
TemplateSentence(s) ==
    /\ Len(s) = 8
    /\ s[1] \in Elems(p7_subjects)
    /\ s[3] \in Elems(p7_actions)
    /\ s[5] \in Elems(p7_objects)
    /\ s[7] \in Elems(p7_details)
    /\ s[2] = " " /\ s[4] = " " /\ s[6] = " " /\ s[8] = "."

\* the number of sentences of each paragraph of a passage
ParagraphSizes(passage) == [k \in 1..Len(passage) |-> Len(passage[k])]

\* C23: a Part 7 passage of length "medium" has exactly 2 paragraphs, of 4
\* and 3 sentences; one of length "long" has exactly 3, of 5, 5 and 4
\* sentences; every sentence is a subject, an action, an object and a
\* purpose clause of the fixed vocabularies.
C23_PassageStructure ==
    (p7_seen # Nothing /\ p7_seen[1].length \in {"medium", "long"}) =>
        \A k \in 1..Len(p7_seen[1].last) :
            LET passage == p7_seen[1].last[k].context.passage
            IN /\ p7_seen[1].length = "medium" => ParagraphSizes(passage) = <<4, 3>>
               /\ p7_seen[1].length = "long" => ParagraphSizes(passage) = <<5, 5, 4>>
               /\ \A p \in 1..Len(passage) : \A j \in 1..Len(passage[p]) :
                    TemplateSentence(passage[p][j])

\* a call for long passages returned two questions, the passage of the
\* second with the paragraphs of 5, 5 and 4 sentences
C23_Witness ==
    /\ p7_seen # Nothing
    /\ p7_seen[1].length = "long"
    /\ Len(p7_seen[1].last) = 2
    /\ ParagraphSizes(p7_seen[1].last[2].context.passage) = <<5, 5, 4>>

\* the bank scenario a short passage comes from
Scenario(passage) ==
    CHOOSE b \in Elems(p7_short_bank(NONE)) : b.passage = passage

\* C24: the explanation of a Part 7 short question is the rationale of the
\* bank scenario it was drawn from, followed by the literal-quote hint
\* when the passage contains one of the trigger phrases.
C24_OwnRationale ==
    (p7_seen # Nothing /\ p7_seen[1].length = "short") =>
        \A k \in 1..Len(p7_seen[1].last) :
            LET q == p7_seen[1].last[k]
                hint == p7_key_hint(q.context.passage)
            IN q.explanationJa =
                 Scenario(q.context.passage).note \o (IF hint = "" THEN <<>> ELSE <<hint>>)

\* the stock phrase put into the correct option of a "which is mentioned"
\* question
Mentioned(q) ==
    CHOOSE o \in Elems(p7_mentioned_objects) :
        \E k \in 1..Len(q.options) : o \in Elems(q.options[k])

\* the phrase occurs in the passage: it is the object of one of its
\* sentences
OccursIn(phrase, passage) ==
    \E p \in 1..Len(passage) : \E j \in 1..Len(passage[p]) : phrase \in Elems(passage[p][j])

\* C28: in a Part 7 medium or long question with the stem "Which of the
\* following is mentioned in the passage?", the initiative phrase of the
\* correct option occurs in the passage of the question.
C28_MentionedOccurs ==
    (p7_seen # Nothing /\ p7_seen[1].length \in {"medium", "long"}) =>
        \A k \in 1..Len(p7_seen[1].last) :
            LET q == p7_seen[1].last[k]
            IN q.stem = <<"Which of the following is mentioned in the passage?">>
                 => OccursIn(Mentioned(q), q.context.passage)

\* the history record e is the record of question q
Records(e, q) ==
    /\ e.part = q.q_part
    /\ e.stem = derive_stem(q)
    /\ e.answer = normalize_answer_letter(q.answer)
    /\ e.explanationJa = q.explanationJa

\* a Streamlit run graded a Submit: answered turned from false to true
StGraded(s, t) ==
    /\ s # Nothing
    /\ t # Nothing
    /\ t[1].clicked = "submit"
    /\ ~s[1].state.answered
    /\ t[1].state.answered

(* C25: in Streamlit, whenever a Submit is graded, the history entry that   *)
(* receives userAnswer and correct (the last one) is the entry recording    *)
(* the question that was graded, never the entry of another question.       *)
C25_GradedEntry ==
    [][(StGraded(st, st') /\ Len(st'[1].history) > 0) =>
           Records(st'[1].history[Len(st'[1].history)], st_question(st'[1]))]_vars

\* the number of questions in Dash's dataset-store
DashQuestions(d) == IF d.dataset = Nothing THEN 0 ELSE Len(d.dataset[1].questions)

(* C26: in Dash, after any sequence of Load, Submit and Restart, the state  *)
(* store has index 0 and a score of 0 or 1 that is never more than the      *)
(* number of loaded questions, and the score is 1 only while answered is    *)
(* true.                                                                    *)
C26_DashStateBounds ==
    dash # Nothing =>
        /\ dash[1].state.index = 0
        /\ dash[1].state.score \in {0, 1}
        /\ dash[1].state.score <= DashQuestions(dash[1])
        /\ dash[1].state.score = 1 => dash[1].state.answered

\* a Submit scored the loaded question
C26_Witness ==
    /\ dash # Nothing
    /\ dash[1].fired = "on_submit"
    /\ DashQuestions(dash[1]) = 1
    /\ dash[1].state = [index |-> 0, score |-> 1, answered |-> TRUE]

\* on_submit has just run in Dash on a store with nothing loaded, or with no
\* choice selected on a question not yet answered
SubmitWithoutInput(d, e) ==
    /\ d # Nothing
    /\ e # Nothing
    /\ e[1].fired = "on_submit"
    /\ \/ DashQuestions(d[1]) = 0
       \/ d[1].choice = NONE

(* C30: in Dash, on_submit leaves the state store (index, score, answered)  *)
(* as it is when no dataset is loaded or no choice is selected; a Submit    *)
(* without a choice does not set answered, so the question can still be     *)
(* answered and scored afterwards.                                          *)
C30_SubmitNeedsChoice ==
    [][SubmitWithoutInput(dash, dash') => dash'[1].state = dash[1].state]_vars

\* Submit was clicked on a loaded question with nothing selected: the
\* question is still unanswered
C30_Witness ==
    /\ dash # Nothing
    /\ dash[1].fired = "on_submit"
    /\ DashQuestions(dash[1]) = 1
    /\ dash[1].choice = NONE
    /\ dash[1].prev_state = state_reset
    /\ dash[1].state = state_reset

(* C27: in Streamlit, every graded Submit is checked against the question   *)
(* that the script run before the click drew on screen: after a click on    *)
(* Next or on "Load selected into quiz", the question on screen is the      *)
(* question stored in the session's dataset.                                *)
C27_GradedAsShown ==
    [][/\ StGraded(st, st') => st[1].shown = Some(st_question(st'[1]))
       /\ (st' # Nothing /\ st'[1].clicked \in {"next", "load_selected"}) =>
              st'[1].shown = Some(st_question(st'[1]))]_vars

\* generate_dataset has run for a call under every value of the hints
HintsDone == hints # Nothing /\ hints[1].seed > 0

(* C29: for a fixed seed, count and domain, the Part 6 block is the same    *)
(* for every genre and every difficulty, the Part 5 block is the same for   *)
(* every genre, and the Part 7 block is the same for every difficulty.      *)
C29_HintNonInterference ==
    HintsDone => Cardinality(hints[1].blocks) = 1

\* a Part 5 block of the hard pool and a Part 7 block of the "notice"
\* passages, each generated under every value of the other hint
C29_Witness ==
    /\ HintsDone
    /\ Cardinality(hints[1].blocks) = 1
    /\ hints[1].call.held \in {"hard", "notice"}
    /\ \A b \in hints[1].blocks : Len(b) = 1 /\ Len(b[1].questions) = MaxPerPart
=============================================================================
